---- MODULE Spec2Model ----
(***************************************************************************)
(* QuoteShip: the shipment repository (persistence/shipment.go).           *)
(*                                                                         *)
(* Go slices are modelled as headers (ptr, len, cap) over backing arrays   *)
(* kept in two heaps: outerMem holds arrays of domain.OriginShipments,     *)
(* innerMem holds arrays of domain.ShipmentQuote.  An assignment of a      *)
(* slice copies the header only, an append writes in place while the       *)
(* capacity allows and allocates a larger array otherwise.                 *)
(***************************************************************************)
EXTENDS Integers, Sequences, FiniteSets, TLC

VARIABLES
    shipmentsByOrigin,    \* r.shipmentsByOrigin: slice header over outerMem
    latestShipmentBatch,  \* r.latestShipmentBatch: slice header over outerMem
    shipmentCount,        \* r.shipmentCount
    thresholdCount,       \* r.thresholdCount
    outerMem,             \* backing arrays of []domain.OriginShipments
    innerMem,             \* backing arrays of []domain.ShipmentQuote
    ctxDone,              \* r.ctx.Done() is closed
    watcher,              \* position of the goroutine started by the constructor
    mu,                   \* r.mu: the caller holding it, or "free"
    call,                 \* per caller: the call in progress or the last one
    held,                 \* per caller: the slice last returned to it by
                          \* GetLatestSortedShipmentsByOrigin
    rates                 \* per caller: the argument and the map of its last
                          \* call of GetLatestExpectedRates

vars == <<shipmentsByOrigin, latestShipmentBatch, shipmentCount, thresholdCount,
          outerMem, innerMem, ctxDone, watcher, mu, call, held, rates>>

----------------------------------------------------------------------------
(* Bounds of the model *)

MaxCompany == 2
MaxPrice == 2
MaxDate == 2
MaxThreshold == 2
MaxCount == 3
MaxTop == 2

----------------------------------------------------------------------------
(* Values *)

OriginShanghai == <<"C", "N", "S", "G", "H">>
OriginSingapore == <<"S", "G", "S", "I", "N">>

NilSlice == [ptr |-> 0, len |-> 0, cap |-> 0]
ZeroQuote == [Company |-> 0, Price |-> 0, Date |-> 0]
ZeroOriginShipments == [Origin |-> <<>>, Quotes |-> NilSlice]

ShipmentQuote(company, price, date) ==
    [Company |-> company, Price |-> price, Date |-> date]

ShipmentUnit(origin, company, price, date) ==
    [Origin |-> origin, Company |-> company, Price |-> price, Date |-> date]

QuoteOf(shipment) ==
    ShipmentQuote(shipment.Company, shipment.Price, shipment.Date)

\* seq[lo..hi) with Go's 0-based bounds
SubSlice(seq, lo, hi) == [k \in 1..(hi - lo) |-> seq[lo + k]]

Zeros(n, z) == [k \in 1..n |-> z]

----------------------------------------------------------------------------
(* strings.TrimSpace and the time.Time predicates *)

IsSpace(c) == c \in {" ", "\t", "\n", "\r"}

RECURSIVE TrimLeft(_)
TrimLeft(s) ==
    IF s # <<>> /\ IsSpace(Head(s)) THEN TrimLeft(Tail(s)) ELSE s

RECURSIVE TrimRight(_)
TrimRight(s) ==
    IF s # <<>> /\ IsSpace(s[Len(s)])
    THEN TrimRight(SubSeq(s, 1, Len(s) - 1))
    ELSE s

TrimSpace(s) == TrimRight(TrimLeft(s))

IsZero(date) == date = 0
After(a, b) == a > b
Before(a, b) == a < b
Equal(a, b) == a = b

----------------------------------------------------------------------------
(* The heap: what a slice header shows *)

\* the quotes a []ShipmentQuote header shows in the heap im
QuotesView(im, h) == [k \in 1..h.len |-> im[h.ptr][k]]

\* the buckets a []OriginShipments header shows in the heaps om, im
BucketsView(om, im, H) ==
    [k \in 1..H.len |->
        [Origin |-> om[H.ptr][k].Origin,
         Quotes |-> QuotesView(im, om[H.ptr][k].Quotes)]]

\* the address of a new backing array
NewPtr(mem) ==
    CHOOSE k \in 1..(Cardinality(DOMAIN mem) + 1) :
        /\ k \notin DOMAIN mem
        /\ \A j \in 1..(k - 1) : j \in DOMAIN mem

\* the capacity append gives a grown array
GrowCap(oldCap, newLen) ==
    IF newLen > 2 * oldCap THEN newLen ELSE 2 * oldCap

\* append(s, elems...) on the heap mem: in place while the capacity allows,
\* into a new and larger backing array otherwise
append(mem, s, elems, zero) ==
    LET newLen == s.len + Len(elems) IN
    IF Len(elems) = 0 THEN [mem |-> mem, slice |-> s]
    ELSE IF newLen <= s.cap
    THEN [mem |-> [mem EXCEPT ![s.ptr] =
                      [k \in 1..s.cap |->
                          IF k > s.len /\ k <= newLen
                          THEN elems[k - s.len] ELSE @[k]]],
          slice |-> [s EXCEPT !.len = newLen]]
    ELSE LET p == NewPtr(mem)
             c == GrowCap(s.cap, newLen)
             old == IF s.len = 0 THEN <<>> ELSE SubSlice(mem[s.ptr], 0, s.len)
         IN [mem |-> [q \in DOMAIN mem \cup {p} |->
                         IF q = p THEN old \o elems \o Zeros(c - newLen, zero)
                         ELSE mem[q]],
             slice |-> [ptr |-> p, len |-> newLen, cap |-> c]]

\* s[:hi]
SliceTo(s, hi) == [s EXCEPT !.len = hi]

\* a slice literal with the given elements
literal(mem, elems) ==
    LET p == NewPtr(mem) IN
    [mem |-> [q \in DOMAIN mem \cup {p} |-> IF q = p THEN elems ELSE mem[q]],
     slice |-> [ptr |-> p, len |-> Len(elems), cap |-> Len(elems)]]

----------------------------------------------------------------------------
(* upsertShipment *)

\* searchPred comparing the prices the other way round
searchPredDescending(q, shipment) ==
    IF q.Price = shipment.Price
    THEN IF Equal(q.Date, shipment.Date)
         THEN q.Company > shipment.Company
         ELSE Before(q.Date, shipment.Date)
    ELSE q.Price < shipment.Price

\* searchPred that orders the quotes by company
searchPredByCompany(q, shipment) == q.Company > shipment.Company

\* the closure handed to sort.Search: quote q of the bucket against the
\* submitted shipment
searchPred(q, shipment) ==
    IF q.Price = shipment.Price
    THEN IF Equal(q.Date, shipment.Date)
         THEN q.Company > shipment.Company
         ELSE Before(q.Date, shipment.Date)
    ELSE q.Price > shipment.Price

\* sort.Search(n, f): binary search for the smallest index in [i, j) at
\* which f is true
RECURSIVE SearchLoop(_, _, _, _)
SearchLoop(quotes, shipment, i, j) ==
    IF i < j
    THEN LET h == (i + j) \div 2 IN
         IF ~searchPred(quotes[h + 1], shipment)
         THEN SearchLoop(quotes, shipment, h + 1, j)
         ELSE SearchLoop(quotes, shipment, i, h)
    ELSE i

\* Search that always yields the end of the bucket
SearchAppend(quotes, shipment) == Len(quotes)

Search(quotes, shipment) == SearchLoop(quotes, shipment, 0, Len(quotes))

\* the index of the first quote of the company, or -1
RECURSIVE IndexOfCompany(_, _, _)
IndexOfCompany(quotes, company, i) ==
    IF i >= Len(quotes) THEN -1
    ELSE IF quotes[i + 1].Company = company THEN i
    ELSE IndexOfCompany(quotes, company, i + 1)

\* insertAt that drops the quotes from the index on
insertAtTruncating(im, quotes, index, q) ==
    append(im, SliceTo(quotes, index), <<q>>, ZeroQuote)

\* Quotes = append(Quotes[:index], append([]ShipmentQuote{q}, Quotes[index:]...)...)
insertAt(im, quotes, index, q) ==
    LET view == QuotesView(im, quotes)
        tmp == <<q>> \o SubSlice(view, index, quotes.len)
    IN append(im, SliceTo(quotes, index), tmp, ZeroQuote)

\* replaceQuote without the removal of the stored quote
replaceQuoteNoRemove(im, quotes, i, shipment) ==
    LET im1 == [im EXCEPT ![quotes.ptr][i + 1] = QuoteOf(shipment)]
        index == Search(QuotesView(im1, quotes), shipment)
    IN insertAt(im1, quotes, index, QuoteOf(shipment))

\* replaceQuote that removes the stored quote and does not insert the new
replaceQuoteNoInsert(im, quotes, i, shipment) ==
    LET im1 == [im EXCEPT ![quotes.ptr][i + 1] = QuoteOf(shipment)]
        rest == SubSlice(QuotesView(im1, quotes), i + 1, quotes.len)
    IN append(im1, SliceTo(quotes, i), rest, ZeroQuote)

\* the replacement made when the submitted date is after the stored one
replaceQuote(im, quotes, i, shipment) ==
    LET im1 == [im EXCEPT ![quotes.ptr][i + 1] = QuoteOf(shipment)]
        rest == SubSlice(QuotesView(im1, quotes), i + 1, quotes.len)
        removed == append(im1, SliceTo(quotes, i), rest, ZeroQuote)
        \* append of nothing keeps the slice Quotes[:i]
        index == Search(QuotesView(removed.mem, removed.slice), shipment)
    IN insertAt(removed.mem, removed.slice, index, QuoteOf(shipment))

\* replaces only when the newer quote is also cheaper
replacesIfCheaper(shipment, stored) ==
    After(shipment.Date, stored.Date) /\ shipment.Price < stored.Price

\* replaces also at an equal date
replacesNotOlder(shipment, stored) == ~Before(shipment.Date, stored.Date)

\* replaces also when the quote is older but cheaper
replacesOrCheaper(shipment, stored) ==
    After(shipment.Date, stored.Date) \/ shipment.Price < stored.Price

\* replaces whatever the dates
replacesAlways(shipment, stored) == TRUE

\* whether an existing quote of the company is replaced
replaces(shipment, stored) == After(shipment.Date, stored.Date)

\* upsertShipment on the bucket at index bi of the backing array optr;
\* yields the heaps afterwards and the returned flag
upsertShipment(om, im, optr, bi, shipment) ==
    LET quotes == om[optr][bi + 1].Quotes
        view == QuotesView(im, quotes)
        i == IndexOfCompany(view, shipment.Company, 0)
        res == IF i >= 0
               THEN IF replaces(shipment, view[i + 1])
                    THEN replaceQuote(im, quotes, i, shipment)
                    ELSE [mem |-> im, slice |-> quotes]
               ELSE insertAt(im, quotes, Search(view, shipment), QuoteOf(shipment))
    IN [om |-> [om EXCEPT ![optr][bi + 1].Quotes = res.slice],
        im |-> res.mem,
        updated |-> TRUE]

----------------------------------------------------------------------------
(* The repository as a value: R = [sbo, lsb, count, om, im] *)

Repo == [sbo |-> shipmentsByOrigin, lsb |-> latestShipmentBatch,
         count |-> shipmentCount, om |-> outerMem, im |-> innerMem]

\* validateShipment without the check of the company
validateShipmentNoCompany(shipment) ==
    IF TrimSpace(shipment.Origin) = <<>> THEN "ErrInvalidOriginPort"
    ELSE IF shipment.Price <= 0 THEN "ErrInvalidPrice"
    ELSE IF IsZero(shipment.Date) THEN "ErrInvalidDate"
    ELSE "nil"

\* validateShipment that checks the company before the other fields
validateShipmentCompanyFirst(shipment) ==
    IF shipment.Company <= 0 THEN "ErrInvalidCompany"
    ELSE IF TrimSpace(shipment.Origin) = <<>> THEN "ErrInvalidOriginPort"
    ELSE IF shipment.Price <= 0 THEN "ErrInvalidPrice"
    ELSE IF IsZero(shipment.Date) THEN "ErrInvalidDate"
    ELSE "nil"

\* validateShipment that accepts the price 0
validateShipmentPriceZero(shipment) ==
    IF TrimSpace(shipment.Origin) = <<>> THEN "ErrInvalidOriginPort"
    ELSE IF shipment.Price < 0 THEN "ErrInvalidPrice"
    ELSE IF IsZero(shipment.Date) THEN "ErrInvalidDate"
    ELSE IF shipment.Company <= 0 THEN "ErrInvalidCompany"
    ELSE "nil"

\* validateShipment: the error returned, "nil" for none
validateShipment(shipment) ==
    IF TrimSpace(shipment.Origin) = <<>> THEN "ErrInvalidOriginPort"
    ELSE IF shipment.Price <= 0 THEN "ErrInvalidPrice"
    ELSE IF IsZero(shipment.Date) THEN "ErrInvalidDate"
    ELSE IF shipment.Company <= 0 THEN "ErrInvalidCompany"
    ELSE "nil"

\* manageBatch that refreshes when the count equals the threshold
manageBatchAtThreshold(R) ==
    IF R.count = thresholdCount
    THEN [R EXCEPT !.lsb = R.sbo, !.count = 0]
    ELSE R

\* manageBatch that refreshes and leaves the count as it is
manageBatchKeepsCount(R) ==
    IF R.count % thresholdCount = 0
    THEN [R EXCEPT !.lsb = R.sbo]
    ELSE R

\* manageBatch
manageBatch(R) ==
    IF R.count % thresholdCount = 0
    THEN [R EXCEPT !.lsb = R.sbo, !.count = 0]
    ELSE R

\* the indices of the buckets whose search goroutine finds the origin
matching(R, shipment) ==
    {i \in 0..(R.sbo.len - 1) : R.om[R.sbo.ptr][i + 1].Origin = shipment.Origin}

\* the goroutine of bucket i wins muOrigin and upserts; upsertShipment
\* returns true on every path, so updated is set and done closed
foundIn(R, i, shipment) ==
    LET u == upsertShipment(R.om, R.im, R.sbo.ptr, i, shipment)
    IN [R EXCEPT !.om = u.om, !.im = u.im]

\* appendOrigin that appends the bucket without the quote
appendOriginEmpty(R, shipment) ==
    LET a == append(R.om, R.sbo,
                    <<[Origin |-> shipment.Origin, Quotes |-> NilSlice]>>,
                    ZeroOriginShipments)
    IN [R EXCEPT !.om = a.mem, !.sbo = a.slice]

\* no goroutine updated: a bucket with the one quote is appended
appendOrigin(R, shipment) ==
    LET lit == literal(R.im, <<QuoteOf(shipment)>>)
        a == append(R.om, R.sbo,
                    <<[Origin |-> shipment.Origin, Quotes |-> lit.slice]>>,
                    ZeroOriginShipments)
    IN [R EXCEPT !.om = a.mem, !.im = lit.mem, !.sbo = a.slice]

\* r.shipmentCount++ and r.manageBatch()
countAndBatch(R) == manageBatch([R EXCEPT !.count = @ + 1])

\* cleanup that leaves the count as it is
cleanupKeepsCount(R) == [R EXCEPT !.sbo = NilSlice, !.lsb = NilSlice]

\* cleanup, between Lock and Unlock
cleanup(R) == [R EXCEPT !.sbo = NilSlice, !.lsb = NilSlice, !.count = 0]

----------------------------------------------------------------------------
(* Storing a repository value: arrays no slice reaches are collected *)

OuterReached(R, roots) == {h.ptr : h \in roots} \ {0}

InnerReached(R, roots) ==
    UNION {{R.om[p][k].Quotes.ptr : k \in 1..Len(R.om[p])} :
              p \in OuterReached(R, roots)} \ {0}

Store(R, roots) ==
    /\ shipmentsByOrigin' = R.sbo
    /\ latestShipmentBatch' = R.lsb
    /\ shipmentCount' = R.count
    /\ outerMem' = [p \in OuterReached(R, roots) |-> R.om[p]]
    /\ innerMem' = [p \in InnerReached(R, roots) |-> R.im[p]]

Held(h) == {h[p] : p \in DOMAIN h}

----------------------------------------------------------------------------
(* Callers and their inputs *)

Callers == {"c1", "c2"}

Origins == {OriginShanghai, OriginSingapore}

\* shipments that pass validateShipment: every price and date for the first
\* company of the first origin, one quote for each other company and for
\* the second origin
ValidUnits ==
    {ShipmentUnit(OriginShanghai, 1, p, d) : p \in 1..MaxPrice, d \in 1..MaxDate}
    \cup {ShipmentUnit(OriginShanghai, c, 1, 1) : c \in 2..MaxCompany}
    \cup {ShipmentUnit(OriginSingapore, 1, 1, 1)}

\* shipments that fail it, in one field or in two
InvalidUnits ==
    {ShipmentUnit(<<" ", "\t">>, 1, 1, 1), ShipmentUnit(OriginShanghai, 1, 0, 1),
     ShipmentUnit(OriginShanghai, 1, 1, 0), ShipmentUnit(OriginShanghai, 0, 1, 1),
     ShipmentUnit(<<>>, 1, -1, 1), ShipmentUnit(OriginShanghai, 0, 1, 0)}

Units == ValidUnits \cup InvalidUnits

NoUnit == ShipmentUnit(<<>>, 0, 0, 0)

Idle == [op |-> "none", at |-> "done", arg |-> NoUnit, res |-> "none"]

Returned(op, arg, res) == [op |-> op, at |-> "done", arg |-> arg, res |-> res]

\* a map[string]int with no entry
EmptyMap == [origin \in {} |-> 0]

\* no call of GetLatestExpectedRates yet
NoRates == [top |-> 0, rates |-> EmptyMap]

----------------------------------------------------------------------------
(* The state after NewShipmentOfferRepository(ctx, thresholdCount) *)

\* (the empty slice literals have no backing array, like nil)
Init ==
    /\ shipmentsByOrigin = NilSlice
    /\ latestShipmentBatch = NilSlice
    /\ shipmentCount = 0
    /\ thresholdCount \in 1..MaxThreshold
    /\ outerMem = <<>>
    /\ innerMem = <<>>
    /\ ctxDone = FALSE
    /\ watcher = "waiting"
    /\ mu = "free"
    /\ call = [p \in Callers |-> Idle]
    /\ held = [p \in Callers |-> NilSlice]
    /\ rates = [p \in Callers |-> NoRates]

----------------------------------------------------------------------------
(* NewShipmentOfferRepository *)

\* before the call of NewShipmentOfferRepository
NotConstructed == [op |-> "none", at |-> "new", arg |-> NoUnit, res |-> "none"]

\* the call of NewShipmentOfferRepository that returned (nil, err)
Failed(arg, err) ==
    [op |-> "NewShipmentOfferRepository", at |-> "failed", arg |-> arg, res |-> err]

\* no repository yet: every field has its zero value, no goroutine waits
InitNew ==
    /\ shipmentsByOrigin = NilSlice
    /\ latestShipmentBatch = NilSlice
    /\ shipmentCount = 0
    /\ thresholdCount = 0
    /\ outerMem = <<>>
    /\ innerMem = <<>>
    /\ ctxDone = FALSE
    /\ watcher = "none"
    /\ mu = "free"
    /\ call = [p \in Callers |-> NotConstructed]
    /\ held = [p \in Callers |-> NilSlice]
    /\ rates = [p \in Callers |-> NoRates]

\* the repository literal and the goroutine started for ctx.Done()
construct(p, arg) ==
    /\ shipmentsByOrigin' = NilSlice
    /\ latestShipmentBatch' = NilSlice
    /\ shipmentCount' = 0
    /\ thresholdCount' = arg.thresholdCount
    /\ watcher' = "waiting"
    /\ call' = [call EXCEPT ![p] = Returned("NewShipmentOfferRepository", arg, "nil")]

\* the return of (nil, err)
fail(p, arg, err) ==
    /\ call' = [call EXCEPT ![p] = Failed(arg, err)]
    /\ UNCHANGED <<shipmentsByOrigin, latestShipmentBatch, shipmentCount,
                   thresholdCount, watcher>>

\* NewShipmentOfferRepository without the check of the context
NewShipmentOfferRepositoryNoCtx(p, ctx, threshold) ==
    /\ call[p].at = "new"
    /\ LET arg == [ctx |-> ctx, thresholdCount |-> threshold] IN
       IF threshold <= 0 THEN fail(p, arg, "ErrThresholdCounter")
       ELSE construct(p, arg)
    /\ UNCHANGED <<outerMem, innerMem, ctxDone, mu, held, rates>>

\* NewShipmentOfferRepository(ctx, thresholdCount), ctx being "nil" or "ctx"
NewShipmentOfferRepository(p, ctx, threshold) ==
    /\ call[p].at = "new"
    /\ LET arg == [ctx |-> ctx, thresholdCount |-> threshold] IN
       IF ctx = "nil" THEN fail(p, arg, "ErrNilContext")
       ELSE IF threshold <= 0 THEN fail(p, arg, "ErrThresholdCounter")
       ELSE construct(p, arg)
    /\ UNCHANGED <<outerMem, innerMem, ctxDone, mu, held, rates>>

----------------------------------------------------------------------------
(* AddOrUpdate *)

\* Mutate that counts a submission only when it changed the live store
MutateCountsChanges(shipment) ==
    LET found == matching(Repo, shipment) IN
    IF found = {}
    THEN LET R == countAndBatch(appendOrigin(Repo, shipment))
         IN Store(R, {R.sbo, R.lsb} \cup Held(held))
    ELSE \E i \in found :
            LET U == foundIn(Repo, i, shipment)
                R == IF BucketsView(U.om, U.im, U.sbo)
                           = BucketsView(outerMem, innerMem, shipmentsByOrigin)
                     THEN U ELSE countAndBatch(U)
            IN Store(R, {R.sbo, R.lsb} \cup Held(held))

\* AddOrUpdate between r.mu.Lock() and the deferred r.mu.Unlock(): the
\* search goroutines, the append of a new origin, the count and manageBatch
Mutate(shipment) ==
    LET found == matching(Repo, shipment) IN
    IF found = {}
    THEN LET R == countAndBatch(appendOrigin(Repo, shipment))
         IN Store(R, {R.sbo, R.lsb} \cup Held(held))
    ELSE \E i \in found :
            LET R == countAndBatch(foundIn(Repo, i, shipment))
            IN Store(R, {R.sbo, R.lsb} \cup Held(held))

\* AddOrUpdate that checks ctx.Done() before it validates the shipment
AddOrUpdateCtxFirst(p, shipment) ==
    /\ call[p].at = "done"
    /\ LET err == validateShipment(shipment) IN
       IF ctxDone
       THEN /\ call' = [call EXCEPT ![p] =
                  Returned("AddOrUpdate", shipment, "ErrOperationCancelled")]
            /\ UNCHANGED <<shipmentsByOrigin, latestShipmentBatch,
                           shipmentCount, outerMem, innerMem>>
       ELSE IF err # "nil"
       THEN /\ call' = [call EXCEPT ![p] = Returned("AddOrUpdate", shipment, err)]
            /\ UNCHANGED <<shipmentsByOrigin, latestShipmentBatch,
                           shipmentCount, outerMem, innerMem>>
       ELSE /\ mu = "free"
            /\ shipmentCount < MaxCount
            /\ Mutate(shipment)
            /\ call' = [call EXCEPT ![p] = Returned("AddOrUpdate", shipment, "nil")]
    /\ UNCHANGED <<thresholdCount, ctxDone, watcher, mu, held>>
    /\ UNCHANGED rates

\* AddOrUpdate that counts the submission it rejects as cancelled
AddOrUpdateCountsCancelled(p, shipment) ==
    /\ call[p].at = "done"
    /\ LET err == validateShipment(shipment) IN
       IF err # "nil"
       THEN /\ call' = [call EXCEPT ![p] = Returned("AddOrUpdate", shipment, err)]
            /\ UNCHANGED <<shipmentsByOrigin, latestShipmentBatch,
                           shipmentCount, outerMem, innerMem>>
       ELSE IF ctxDone
       THEN /\ call' = [call EXCEPT ![p] =
                  Returned("AddOrUpdate", shipment, "ErrOperationCancelled")]
            /\ mu = "free"
            /\ shipmentCount < MaxCount
            /\ shipmentCount' = shipmentCount + 1
            /\ UNCHANGED <<shipmentsByOrigin, latestShipmentBatch,
                           outerMem, innerMem>>
       ELSE /\ mu = "free"
            /\ shipmentCount < MaxCount
            /\ Mutate(shipment)
            /\ call' = [call EXCEPT ![p] = Returned("AddOrUpdate", shipment, "nil")]
    /\ UNCHANGED <<thresholdCount, ctxDone, watcher, mu, held>>
    /\ UNCHANGED rates

\* one call of AddOrUpdate, from validation to return
AddOrUpdate(p, shipment) ==
    /\ call[p].at = "done"
    /\ LET err == validateShipment(shipment) IN
       IF err # "nil"
       THEN /\ call' = [call EXCEPT ![p] = Returned("AddOrUpdate", shipment, err)]
            /\ UNCHANGED <<shipmentsByOrigin, latestShipmentBatch,
                           shipmentCount, outerMem, innerMem>>
       ELSE IF ctxDone
       THEN /\ call' = [call EXCEPT ![p] =
                  Returned("AddOrUpdate", shipment, "ErrOperationCancelled")]
            /\ UNCHANGED <<shipmentsByOrigin, latestShipmentBatch,
                           shipmentCount, outerMem, innerMem>>
       ELSE /\ mu = "free"
            /\ shipmentCount < MaxCount
            /\ Mutate(shipment)
            /\ call' = [call EXCEPT ![p] = Returned("AddOrUpdate", shipment, "nil")]
    /\ UNCHANGED <<thresholdCount, ctxDone, watcher, mu, held>>
    /\ UNCHANGED rates

\* AddOrUpdateBegin without the check of ctx.Done()
AddOrUpdateBeginNoCtx(p, shipment) ==
    /\ call[p].at = "done"
    /\ LET err == validateShipment(shipment) IN
       call' = [call EXCEPT ![p] =
           IF err # "nil" THEN Returned("AddOrUpdate", shipment, err)
           ELSE [op |-> "AddOrUpdate", at |-> "lock", arg |-> shipment,
                 res |-> "none"]]
    /\ UNCHANGED <<shipmentsByOrigin, latestShipmentBatch, shipmentCount,
                   thresholdCount, outerMem, innerMem, ctxDone, watcher, mu, held>>
    /\ UNCHANGED rates

\* the same call in steps: validation and the check of ctx.Done(), up to
\* r.mu.Lock()
AddOrUpdateBegin(p, shipment) ==
    /\ call[p].at = "done"
    /\ LET err == validateShipment(shipment) IN
       call' = [call EXCEPT ![p] =
           IF err # "nil" THEN Returned("AddOrUpdate", shipment, err)
           ELSE IF ctxDone
           THEN Returned("AddOrUpdate", shipment, "ErrOperationCancelled")
           ELSE [op |-> "AddOrUpdate", at |-> "lock", arg |-> shipment,
                 res |-> "none"]]
    /\ UNCHANGED <<shipmentsByOrigin, latestShipmentBatch, shipmentCount,
                   thresholdCount, outerMem, innerMem, ctxDone, watcher, mu, held>>
    /\ UNCHANGED rates

\* r.mu.Lock()
AddOrUpdateLock(p) ==
    /\ call[p].op = "AddOrUpdate" /\ call[p].at = "lock"
    /\ mu = "free"
    /\ shipmentCount < MaxCount
    /\ mu' = p
    /\ call' = [call EXCEPT ![p].at = "locked"]
    /\ UNCHANGED <<shipmentsByOrigin, latestShipmentBatch, shipmentCount,
                   thresholdCount, outerMem, innerMem, ctxDone, watcher, held>>
    /\ UNCHANGED rates

\* the locked section and the deferred r.mu.Unlock()
AddOrUpdateLocked(p) ==
    /\ call[p].op = "AddOrUpdate" /\ call[p].at = "locked"
    /\ mu = p
    /\ Mutate(call[p].arg)
    /\ mu' = "free"
    /\ call' = [call EXCEPT ![p].at = "done", ![p].res = "nil"]
    /\ UNCHANGED <<thresholdCount, ctxDone, watcher, held>>
    /\ UNCHANGED rates

----------------------------------------------------------------------------
(* AddOrUpdate under r.mu, statement by statement.  The call keeps its     *)
(* local variables in its record: entry is the repository as r.mu.Lock()   *)
(* found it; workers, updated, muOrigin and closed, the number of          *)
(* close(done), are the variables of the search goroutines                 *)

\* a call of AddOrUpdate at a statement under r.mu
InCall(p, at) == call[p].op = "AddOrUpdate" /\ call[p].at = at

At(p, at) ==
    [op |-> "AddOrUpdate", at |-> at, arg |-> call[p].arg, res |-> "none",
     entry |-> call[p].entry]

\* AddOrUpdateEnter that does not wait for r.mu
AddOrUpdateEnterNoWait(p) ==
    /\ InCall(p, "lock")
    /\ shipmentCount < MaxCount
    /\ mu' = p
    /\ call' = [call EXCEPT ![p] =
          [op |-> "AddOrUpdate", at |-> "search", arg |-> call[p].arg,
           res |-> "none", entry |-> Repo]]
    /\ UNCHANGED <<shipmentsByOrigin, latestShipmentBatch, shipmentCount,
                   thresholdCount, outerMem, innerMem, ctxDone, watcher, held, rates>>

\* r.mu.Lock()
AddOrUpdateEnter(p) ==
    /\ InCall(p, "lock")
    /\ mu = "free"
    /\ shipmentCount < MaxCount
    /\ mu' = p
    /\ call' = [call EXCEPT ![p] =
          [op |-> "AddOrUpdate", at |-> "search", arg |-> call[p].arg,
           res |-> "none", entry |-> Repo]]
    /\ UNCHANGED <<shipmentsByOrigin, latestShipmentBatch, shipmentCount,
                   thresholdCount, outerMem, innerMem, ctxDone, watcher, held, rates>>

\* the search goroutines up to wg.Wait() and the append of a new origin
AddOrUpdateSearch(p) ==
    /\ InCall(p, "search")
    /\ LET found == matching(Repo, call[p].arg) IN
       IF found = {}
       THEN LET R == appendOrigin(Repo, call[p].arg)
            IN Store(R, {R.sbo, R.lsb} \cup Held(held))
       ELSE \E i \in found :
               LET R == foundIn(Repo, i, call[p].arg)
               IN Store(R, {R.sbo, R.lsb} \cup Held(held))
    /\ call' = [call EXCEPT ![p] = At(p, "count")]
    /\ UNCHANGED <<thresholdCount, ctxDone, watcher, mu, held, rates>>

\* r.shipmentCount++
AddOrUpdateCount(p) ==
    /\ InCall(p, "count")
    /\ shipmentCount' = shipmentCount + 1
    /\ call' = [call EXCEPT ![p] = At(p, "batch")]
    /\ UNCHANGED <<shipmentsByOrigin, latestShipmentBatch, thresholdCount,
                   outerMem, innerMem, ctxDone, watcher, mu, held, rates>>

\* AddOrUpdateBatch that returns with r.mu held
AddOrUpdateBatchNoUnlock(p) ==
    /\ InCall(p, "batch")
    /\ LET R == manageBatch(Repo)
       IN Store(R, {R.sbo, R.lsb} \cup Held(held))
    /\ call' = [call EXCEPT ![p] = Returned("AddOrUpdate", call[p].arg, "nil")]
    /\ UNCHANGED <<thresholdCount, ctxDone, watcher, mu, held, rates>>

\* r.manageBatch(), return nil and the deferred r.mu.Unlock()
AddOrUpdateBatch(p) ==
    /\ InCall(p, "batch")
    /\ LET R == manageBatch(Repo)
       IN Store(R, {R.sbo, R.lsb} \cup Held(held))
    /\ mu' = "free"
    /\ call' = [call EXCEPT ![p] = Returned("AddOrUpdate", call[p].arg, "nil")]
    /\ UNCHANGED <<thresholdCount, ctxDone, watcher, held, rates>>

\* the goroutines of the loop over r.shipmentsByOrigin, one for each index
AddOrUpdateGo(p) ==
    /\ InCall(p, "search")
    /\ call' = [call EXCEPT ![p] =
          [op |-> "AddOrUpdate", at |-> "wait", arg |-> call[p].arg,
           res |-> "none", entry |-> call[p].entry,
           workers |-> [i \in 0..(shipmentsByOrigin.len - 1) |-> "select"],
           updated |-> FALSE, muOrigin |-> "free", closed |-> 0]]
    /\ UNCHANGED <<shipmentsByOrigin, latestShipmentBatch, shipmentCount,
                   thresholdCount, outerMem, innerMem, ctxDone, watcher, mu,
                   held, rates>>

\* the goroutine i of the call of p stands at pc
InWorker(p, i, pc) ==
    /\ InCall(p, "wait")
    /\ i \in DOMAIN call[p].workers
    /\ call[p].workers[i] = pc

\* select { case <-done: return; default: }
WorkerSelect(p, i) ==
    /\ InWorker(p, i, "select")
    /\ call' = [call EXCEPT ![p].workers[i] =
          IF call[p].closed > 0 THEN "exit" ELSE "compare"]
    /\ UNCHANGED <<shipmentsByOrigin, latestShipmentBatch, shipmentCount,
                   thresholdCount, outerMem, innerMem, ctxDone, watcher, mu,
                   held, rates>>

\* if r.shipmentsByOrigin[i].Origin == shipment.Origin
WorkerCompare(p, i) ==
    /\ InWorker(p, i, "compare")
    /\ call' = [call EXCEPT ![p].workers[i] =
          IF outerMem[shipmentsByOrigin.ptr][i + 1].Origin = call[p].arg.Origin
          THEN "lock" ELSE "exit"]
    /\ UNCHANGED <<shipmentsByOrigin, latestShipmentBatch, shipmentCount,
                   thresholdCount, outerMem, innerMem, ctxDone, watcher, mu,
                   held, rates>>

\* muOrigin.Lock()
WorkerLock(p, i) ==
    /\ InWorker(p, i, "lock")
    /\ call[p].muOrigin = "free"
    /\ call' = [call EXCEPT ![p].workers[i] = "critical", ![p].muOrigin = "held"]
    /\ UNCHANGED <<shipmentsByOrigin, latestShipmentBatch, shipmentCount,
                   thresholdCount, outerMem, innerMem, ctxDone, watcher, mu,
                   held, rates>>

\* WorkerUpsert that sets a variable updated of its own, not the caller's
WorkerUpsertShadowed(p, i) ==
    /\ InWorker(p, i, "critical")
    /\ LET R == foundIn(Repo, i, call[p].arg)
       IN Store(R, {R.sbo, R.lsb} \cup Held(held))
    /\ call' = [call EXCEPT ![p].workers[i] = "exit",
                            ![p].muOrigin = "free",
                            ![p].closed = @ + 1]
    /\ UNCHANGED <<thresholdCount, ctxDone, watcher, mu, held, rates>>

\* if !updated { upsertShipment; updated = true; close(done) } and
\* muOrigin.Unlock()
WorkerUpsert(p, i) ==
    /\ InWorker(p, i, "critical")
    /\ IF call[p].updated
       THEN /\ call' = [call EXCEPT ![p].workers[i] = "exit",
                                    ![p].muOrigin = "free"]
            /\ UNCHANGED <<shipmentsByOrigin, latestShipmentBatch,
                           shipmentCount, outerMem, innerMem>>
       ELSE /\ LET R == foundIn(Repo, i, call[p].arg)
               IN Store(R, {R.sbo, R.lsb} \cup Held(held))
            /\ call' = [call EXCEPT ![p].workers[i] = "exit",
                                    ![p].muOrigin = "free",
                                    ![p].updated = TRUE,
                                    ![p].closed = @ + 1]
    /\ UNCHANGED <<thresholdCount, ctxDone, watcher, mu, held, rates>>

\* what follows wg.Wait(): if !updated, the append of a new origin
afterWait(p) ==
    /\ IF call[p].updated
       THEN UNCHANGED <<shipmentsByOrigin, latestShipmentBatch, shipmentCount,
                        outerMem, innerMem>>
       ELSE LET R == appendOrigin(Repo, call[p].arg)
            IN Store(R, {R.sbo, R.lsb} \cup Held(held))
    /\ call' = [call EXCEPT ![p] = At(p, "count")]
    /\ UNCHANGED <<thresholdCount, ctxDone, watcher, mu, held, rates>>

\* AddOrUpdateWait that does not wait for the goroutines
AddOrUpdateNoWait(p) ==
    /\ InCall(p, "wait")
    /\ afterWait(p)

\* wg.Wait() returns when every goroutine has returned
AddOrUpdateWait(p) ==
    /\ InCall(p, "wait")
    /\ \A i \in DOMAIN call[p].workers : call[p].workers[i] = "exit"
    /\ afterWait(p)

----------------------------------------------------------------------------
(* IncrementShipmentUnitsCount *)

\* IncrementShipmentUnitsCount that also runs manageBatch
IncrementWithBatch(p) ==
    /\ call[p].at = "done"
    /\ mu = "free"
    /\ shipmentCount < MaxCount
    /\ LET R == countAndBatch(Repo)
       IN Store(R, {R.sbo, R.lsb} \cup Held(held))
    /\ call' = [call EXCEPT ![p] =
          Returned("IncrementShipmentUnitsCount", NoUnit, "nil")]
    /\ UNCHANGED <<thresholdCount, ctxDone, watcher, mu, held>>
    /\ UNCHANGED rates

\* one call of IncrementShipmentUnitsCount
IncrementShipmentUnitsCount(p) ==
    /\ call[p].at = "done"
    /\ mu = "free"
    /\ shipmentCount < MaxCount
    /\ shipmentCount' = shipmentCount + 1
    /\ call' = [call EXCEPT ![p] =
          Returned("IncrementShipmentUnitsCount", NoUnit, "nil")]
    /\ UNCHANGED <<shipmentsByOrigin, latestShipmentBatch, thresholdCount,
                   outerMem, innerMem, ctxDone, watcher, mu, held>>
    /\ UNCHANGED rates

\* IncrementLock that does not wait for r.mu
IncrementLockNoWait(p) ==
    /\ call[p].at = "done"
    /\ shipmentCount < MaxCount
    /\ mu' = p
    /\ call' = [call EXCEPT ![p] =
          [op |-> "IncrementShipmentUnitsCount", at |-> "locked",
           arg |-> NoUnit, res |-> "none"]]
    /\ UNCHANGED <<shipmentsByOrigin, latestShipmentBatch, shipmentCount,
                   thresholdCount, outerMem, innerMem, ctxDone, watcher, held>>
    /\ UNCHANGED rates

\* the same call in steps: r.mu.Lock()
IncrementLock(p) ==
    /\ call[p].at = "done"
    /\ mu = "free"
    /\ shipmentCount < MaxCount
    /\ mu' = p
    /\ call' = [call EXCEPT ![p] =
          [op |-> "IncrementShipmentUnitsCount", at |-> "locked",
           arg |-> NoUnit, res |-> "none"]]
    /\ UNCHANGED <<shipmentsByOrigin, latestShipmentBatch, shipmentCount,
                   thresholdCount, outerMem, innerMem, ctxDone, watcher, held>>
    /\ UNCHANGED rates

\* r.shipmentCount++ and the deferred r.mu.Unlock()
IncrementLocked(p) ==
    /\ call[p].op = "IncrementShipmentUnitsCount" /\ call[p].at = "locked"
    /\ mu = p
    /\ shipmentCount' = shipmentCount + 1
    /\ mu' = "free"
    /\ call' = [call EXCEPT ![p].at = "done", ![p].res = "nil"]
    /\ UNCHANGED <<shipmentsByOrigin, latestShipmentBatch, thresholdCount,
                   outerMem, innerMem, ctxDone, watcher, held>>
    /\ UNCHANGED rates

----------------------------------------------------------------------------
(* GetLatestSortedShipmentsByOrigin *)

\* the caller p now holds the slice h
Hold(p, h) ==
    /\ held' = [held EXCEPT ![p] = h]
    /\ Store(Repo, {shipmentsByOrigin, latestShipmentBatch}
                      \cup Held([held EXCEPT ![p] = h]))

\* one call of GetLatestSortedShipmentsByOrigin: nil when cancelled
GetLatestSortedShipmentsByOrigin(p) ==
    /\ call[p].at = "done"
    /\ call' = [call EXCEPT ![p] =
          Returned("GetLatestSortedShipmentsByOrigin", NoUnit, "nil")]
    /\ IF ctxDone
       THEN Hold(p, NilSlice)
       ELSE mu = "free" /\ Hold(p, latestShipmentBatch)
    /\ UNCHANGED <<thresholdCount, ctxDone, watcher, mu>>
    /\ UNCHANGED rates

\* the same call in steps: the check of ctx.Done()
GetBegin(p) ==
    /\ call[p].at = "done"
    /\ IF ctxDone
       THEN /\ call' = [call EXCEPT ![p] =
                  Returned("GetLatestSortedShipmentsByOrigin", NoUnit, "nil")]
            /\ Hold(p, NilSlice)
       ELSE /\ call' = [call EXCEPT ![p] =
                  [op |-> "GetLatestSortedShipmentsByOrigin", at |-> "lock",
                   arg |-> NoUnit, res |-> "none"]]
            /\ UNCHANGED <<held, shipmentsByOrigin, latestShipmentBatch,
                           shipmentCount, outerMem, innerMem>>
    /\ UNCHANGED <<thresholdCount, ctxDone, watcher, mu>>
    /\ UNCHANGED rates

\* GetRLocked that returns r.shipmentsByOrigin
GetRLockedLive(p) ==
    /\ call[p].op = "GetLatestSortedShipmentsByOrigin" /\ call[p].at = "lock"
    /\ mu = "free"
    /\ call' = [call EXCEPT ![p].at = "done", ![p].res = "nil"]
    /\ Hold(p, shipmentsByOrigin)
    /\ UNCHANGED <<thresholdCount, ctxDone, watcher, mu>>
    /\ UNCHANGED rates

\* r.mu.RLock(), return r.latestShipmentBatch, r.mu.RUnlock()
GetRLocked(p) ==
    /\ call[p].op = "GetLatestSortedShipmentsByOrigin" /\ call[p].at = "lock"
    /\ mu = "free"
    /\ call' = [call EXCEPT ![p].at = "done", ![p].res = "nil"]
    /\ Hold(p, latestShipmentBatch)
    /\ UNCHANGED <<thresholdCount, ctxDone, watcher, mu>>
    /\ UNCHANGED rates

----------------------------------------------------------------------------
(* ShipmentService.GetLatestExpectedRates *)

\* Go's integer division, which truncates toward zero (b > 0)
Quot(a, b) == IF a >= 0 THEN a \div b ELSE -((-a) \div b)

\* unitsCount without the cap at top
unitsCountUncapped(quotes, top) == Len(quotes)

\* unitsCount: len(originShipments.Quotes), at most top
unitsCount(quotes, top) == IF Len(quotes) > top THEN top ELSE Len(quotes)

\* totalPrice over originShipments.Quotes[:n]
RECURSIVE totalPrice(_, _)
totalPrice(quotes, n) ==
    IF n = 0 THEN 0 ELSE totalPrice(quotes, n - 1) + quotes[n].Price

\* expectedRates[key] = value
MapPut(m, key, value) ==
    [k \in DOMAIN m \cup {key} |-> IF k = key THEN value ELSE m[k]]

\* the loop over the buckets, from bucket k on, filling the map m
RECURSIVE ratesLoop(_, _, _, _)
ratesLoop(buckets, top, k, m) ==
    IF k > Len(buckets) THEN m
    ELSE LET originShipments == buckets[k] IN
         IF \/ Len(originShipments.Quotes) = 0
            \/ TrimSpace(originShipments.Origin) = <<>>
         THEN ratesLoop(buckets, top, k + 1, m)
         ELSE LET n == unitsCount(originShipments.Quotes, top) IN
              IF n > 0
              THEN ratesLoop(buckets, top, k + 1,
                       MapPut(m, originShipments.Origin,
                              Quot(totalPrice(originShipments.Quotes, n), n)))
              ELSE ratesLoop(buckets, top, k + 1, m)

\* expectedRates that returns a map without entries as a success
expectedRatesNoCheck(buckets, top) ==
    IF Len(buckets) = 0
    THEN [rates |-> EmptyMap, err |-> "ErrNoExpectedRates"]
    ELSE [rates |-> ratesLoop(buckets, top, 1, EmptyMap), err |-> "nil"]

\* what GetLatestExpectedRates returns for the buckets the repository
\* returned, top > 0
expectedRates(buckets, top) ==
    IF Len(buckets) = 0
    THEN [rates |-> EmptyMap, err |-> "ErrNoExpectedRates"]
    ELSE LET m == ratesLoop(buckets, top, 1, EmptyMap) IN
         IF DOMAIN m = {}
         THEN [rates |-> EmptyMap, err |-> "ErrNoValidRates"]
         ELSE [rates |-> m, err |-> "nil"]

\* the call of s.r.GetLatestSortedShipmentsByOrigin() and what follows it
readAndRate(p, top) ==
    /\ IF ctxDone
       THEN Hold(p, NilSlice)
       ELSE mu = "free" /\ Hold(p, latestShipmentBatch)
    /\ LET r == expectedRates(BucketsView(outerMem', innerMem', held'[p]), top)
       IN /\ call' = [call EXCEPT ![p] =
                Returned("GetLatestExpectedRates", NoUnit, r.err)]
          /\ rates' = [rates EXCEPT ![p] = [top |-> top, rates |-> r.rates]]

\* GetLatestExpectedRates that reads the repository before it checks top
GetLatestExpectedRatesReadFirst(p, top) ==
    /\ call[p].at = "done"
    /\ IF top <= 0
       THEN /\ IF ctxDone
               THEN Hold(p, NilSlice)
               ELSE mu = "free" /\ Hold(p, latestShipmentBatch)
            /\ call' = [call EXCEPT ![p] =
                  Returned("GetLatestExpectedRates", NoUnit, "ErrInvalidTopValue")]
            /\ rates' = [rates EXCEPT ![p] = [top |-> top, rates |-> EmptyMap]]
       ELSE readAndRate(p, top)
    /\ UNCHANGED <<thresholdCount, ctxDone, watcher, mu>>

\* one call of GetLatestExpectedRates(top)
GetLatestExpectedRates(p, top) ==
    /\ call[p].at = "done"
    /\ IF top <= 0
       THEN /\ call' = [call EXCEPT ![p] =
                  Returned("GetLatestExpectedRates", NoUnit, "ErrInvalidTopValue")]
            /\ rates' = [rates EXCEPT ![p] = [top |-> top, rates |-> EmptyMap]]
            /\ UNCHANGED <<shipmentsByOrigin, latestShipmentBatch, shipmentCount,
                           outerMem, innerMem, held>>
       ELSE readAndRate(p, top)
    /\ UNCHANGED <<thresholdCount, ctxDone, watcher, mu>>

----------------------------------------------------------------------------
(* ShipmentHandler.SubmitShipmentOffer, from the decoded payload on *)

OriginShenzhen == <<"C", "N", "S", "N", "Z">>
OriginNingbo == <<"C", "N", "N", "B", "O">>
OriginGuangzhou == <<"C", "N", "G", "G", "Z">>

MinCompanyID == 1
MaxCompanyID == 999
MinPrice == 1
\* MaxPrice of the package presentation
MaxOfferPrice == 99999

\* requestedShipmentOffer: the origin and the date are strings
requestedShipmentOffer(company, price, origin, date) ==
    [Company |-> company, Price |-> price, Origin |-> origin, Date |-> date]

Digits == <<"0", "1", "2", "3", "4", "5", "6", "7", "8", "9">>

isDigit(c) == \E n \in 1..10 : Digits[n] = c

\* the value of a digit
digitValue(c) == (CHOOSE n \in 1..10 : Digits[n] = c) - 1

\* the number written by the digits value[lo..hi], 1-based
RECURSIVE atoi(_, _, _)
atoi(value, lo, hi) ==
    IF hi < lo THEN 0
    ELSE 10 * atoi(value, lo, hi - 1) + digitValue(value[hi])

isLeap(year) == year % 4 = 0 /\ (year % 100 # 0 \/ year % 400 = 0)

daysIn(month, year) ==
    IF month = 2 THEN (IF isLeap(year) THEN 29 ELSE 28)
    ELSE IF month \in {4, 6, 9, 11} THEN 30
    ELSE 31

\* the days of the year before the month
RECURSIVE daysBefore(_, _)
daysBefore(month, year) ==
    IF month <= 1 THEN 0
    ELSE daysBefore(month - 1, year) + daysIn(month - 1, year)

\* the days from January 1 of the year 1, the zero time.Time, to the date
daysSinceZero(year, month, day) ==
    LET y == year - 1
    IN 365 * y + (y \div 4) - (y \div 100) + (y \div 400)
       + daysBefore(month, year) + (day - 1)

\* time.Parse("2006-01-02", value): four digits, two digits and two digits
\* with "-" between them and nothing after, the month in 1..12 and the day
\* a day of that month; the time is its number of days since the zero time
timeParse(value) ==
    IF /\ Len(value) = 10
       /\ \A k \in {1, 2, 3, 4, 6, 7, 9, 10} : isDigit(value[k])
       /\ value[5] = "-"
       /\ value[8] = "-"
    THEN LET year == atoi(value, 1, 4)
             month == atoi(value, 6, 7)
             day == atoi(value, 9, 10)
         IN IF month \in 1..12 /\ day \in 1..daysIn(month, year)
            THEN [time |-> daysSinceZero(year, month, day), err |-> "nil"]
            ELSE [time |-> 0, err |-> "ParseError"]
    ELSE [time |-> 0, err |-> "ParseError"]

\* validateAndParseShipment without the upper bounds
validateAndParseShipmentNoUpper(shipmentOffer) ==
    IF shipmentOffer.Company < MinCompanyID
    THEN [shipment |-> NoUnit, err |-> "ErrInvalidCompany"]
    ELSE IF shipmentOffer.Price < MinPrice
    THEN [shipment |-> NoUnit, err |-> "ErrInvalidPrice"]
    ELSE IF shipmentOffer.Origin \notin {OriginShanghai, OriginSingapore, OriginShenzhen,
                                         OriginNingbo, OriginGuangzhou}
    THEN [shipment |-> NoUnit, err |-> "ErrInvalidOriginPort"]
    ELSE LET parsed == timeParse(shipmentOffer.Date) IN
         IF parsed.err # "nil"
         THEN [shipment |-> NoUnit, err |-> "ErrInvalidDate"]
         ELSE [shipment |-> ShipmentUnit(shipmentOffer.Origin, shipmentOffer.Company,
                                         shipmentOffer.Price, parsed.time),
               err |-> "nil"]

\* validateAndParseShipment: the shipment and the error, "nil" for none
validateAndParseShipment(shipmentOffer) ==
    IF shipmentOffer.Company < MinCompanyID \/ shipmentOffer.Company > MaxCompanyID
    THEN [shipment |-> NoUnit, err |-> "ErrInvalidCompany"]
    ELSE IF shipmentOffer.Price < MinPrice \/ shipmentOffer.Price > MaxOfferPrice
    THEN [shipment |-> NoUnit, err |-> "ErrInvalidPrice"]
    ELSE IF shipmentOffer.Origin \notin {OriginShanghai, OriginSingapore, OriginShenzhen,
                                         OriginNingbo, OriginGuangzhou}
    THEN [shipment |-> NoUnit, err |-> "ErrInvalidOriginPort"]
    ELSE LET parsed == timeParse(shipmentOffer.Date) IN
         IF parsed.err # "nil"
         THEN [shipment |-> NoUnit, err |-> "ErrInvalidDate"]
         ELSE [shipment |-> ShipmentUnit(shipmentOffer.Origin, shipmentOffer.Company,
                                         shipmentOffer.Price, parsed.time),
               err |-> "nil"]

\* the switch of ShipmentService.SubmitShipment before the call of the
\* repository
submitShipmentSwitch(shipment) ==
    IF TrimSpace(shipment.Origin) = <<>> THEN "ErrInvalidOriginPort"
    ELSE IF shipment.Price <= 0 THEN "ErrInvalidPrice"
    ELSE IF IsZero(shipment.Date) THEN "ErrInvalidDate"
    ELSE IF shipment.Company <= 0 THEN "ErrInvalidCompany"
    ELSE "nil"

\* the handler returned: the status and the body written, and the error of
\* the service that was logged
Responded(shipmentOffer, status, body, err) ==
    [op |-> "SubmitShipmentOffer", at |-> "done", arg |-> shipmentOffer,
     res |-> status, body |-> body, err |-> err]

\* writeJSONResponse(writer, http.StatusInternalServerError, ...)
serverError(p, shipmentOffer, err) ==
    /\ call' = [call EXCEPT ![p] =
          Responded(shipmentOffer, "StatusInternalServerError",
                    "ErrIntervalServerError", err)]
    /\ UNCHANGED <<shipmentsByOrigin, latestShipmentBatch, shipmentCount,
                   outerMem, innerMem>>

\* one request to SubmitShipmentOffer with a JSON payload that decodes
SubmitShipmentOffer(p, shipmentOffer) ==
    /\ call[p].at = "done"
    /\ LET parsed == validateAndParseShipment(shipmentOffer)
           shipment == parsed.shipment
       IN IF parsed.err # "nil"
          THEN /\ mu = "free"
               /\ shipmentCount < MaxCount
               /\ shipmentCount' = shipmentCount + 1
               /\ call' = [call EXCEPT ![p] =
                     Responded(shipmentOffer, "StatusOK", "", "nil")]
               /\ UNCHANGED <<shipmentsByOrigin, latestShipmentBatch,
                              outerMem, innerMem>>
          ELSE IF submitShipmentSwitch(shipment) # "nil"
          THEN serverError(p, shipmentOffer, submitShipmentSwitch(shipment))
          ELSE IF validateShipment(shipment) # "nil"
          THEN serverError(p, shipmentOffer, validateShipment(shipment))
          ELSE IF ctxDone
          THEN serverError(p, shipmentOffer, "ErrOperationCancelled")
          ELSE /\ mu = "free"
               /\ shipmentCount < MaxCount
               /\ Mutate(shipment)
               /\ call' = [call EXCEPT ![p] =
                     Responded(shipmentOffer, "StatusOK", "", "nil")]
    /\ UNCHANGED <<thresholdCount, ctxDone, watcher, mu, held, rates>>

----------------------------------------------------------------------------
(* The context and the goroutine that waits for it *)

Cancel ==
    /\ ~ctxDone
    /\ ctxDone' = TRUE
    /\ UNCHANGED <<shipmentsByOrigin, latestShipmentBatch, shipmentCount,
                   thresholdCount, outerMem, innerMem, watcher, mu, call, held>>
    /\ UNCHANGED rates

\* <-ctx.Done() returns and repo.cleanup() runs
Cleanup ==
    /\ watcher = "waiting"
    /\ ctxDone
    /\ mu = "free"
    /\ Store(cleanup(Repo), {NilSlice} \cup Held(held))
    /\ watcher' = "exited"
    /\ UNCHANGED <<thresholdCount, ctxDone, mu, call, held>>
    /\ UNCHANGED rates

\* the same in steps: <-ctx.Done() returns and cleanup takes r.mu
CleanupLock ==
    /\ watcher = "waiting"
    /\ ctxDone
    /\ mu = "free"
    /\ mu' = "watcher"
    /\ watcher' = "locked"
    /\ UNCHANGED <<shipmentsByOrigin, latestShipmentBatch, shipmentCount,
                   thresholdCount, outerMem, innerMem, ctxDone, call, held>>
    /\ UNCHANGED rates

\* the body of cleanup and the deferred r.mu.Unlock()
CleanupLocked ==
    /\ watcher = "locked"
    /\ mu = "watcher"
    /\ Store(cleanup(Repo), {NilSlice} \cup Held(held))
    /\ mu' = "free"
    /\ watcher' = "exited"
    /\ UNCHANGED <<thresholdCount, ctxDone, call, held>>
    /\ UNCHANGED rates

----------------------------------------------------------------------------
(* Spec: one caller, every call from entry to return in one step *)

Next ==
    \/ \E shipment \in Units : AddOrUpdate("c1", shipment)
    \/ IncrementShipmentUnitsCount("c1")
    \/ GetLatestSortedShipmentsByOrigin("c1")
    \/ Cancel
    \/ Cleanup

Spec == Init /\ [][Next]_vars

----------------------------------------------------------------------------
(* SpecSteps: two callers, every call in the steps between which the other *)
(* caller, the cancellation and the clean-up can come                      *)

\* the shipments the two callers submit
StepUnits ==
    {ShipmentUnit(OriginShanghai, 1, 1, 1), ShipmentUnit(OriginShanghai, 1, 1, 2),
     ShipmentUnit(OriginShanghai, 2, 1, 1)}

NextSteps ==
    \/ \E p \in Callers, shipment \in StepUnits : AddOrUpdateBegin(p, shipment)
    \/ \E p \in Callers : AddOrUpdateLock(p)
    \/ \E p \in Callers : AddOrUpdateLocked(p)
    \/ \E p \in Callers : IncrementLock(p)
    \/ \E p \in Callers : IncrementLocked(p)
    \/ \E p \in Callers : GetBegin(p)
    \/ \E p \in Callers : GetRLocked(p)
    \/ Cancel
    \/ CleanupLock
    \/ CleanupLocked

SpecSteps == Init /\ [][NextSteps]_vars

----------------------------------------------------------------------------
(* SpecRates: the service over the repository; one caller, every call from *)
(* entry to return in one step                                             *)

\* the values of top the caller passes
Tops == -1..MaxTop

\* the shipments submitted: three companies of one origin, the second the
\* cheapest, a newer and cheaper quote of the first, and a second origin
RateUnits ==
    {ShipmentUnit(OriginShanghai, 1, 2, 1), ShipmentUnit(OriginShanghai, 2, 1, 1),
     ShipmentUnit(OriginShanghai, 3, 2, 1), ShipmentUnit(OriginShanghai, 1, 1, 2),
     ShipmentUnit(OriginSingapore, 1, 1, 1)}

NextRates ==
    \/ \E shipment \in RateUnits : AddOrUpdate("c1", shipment)
    \/ IncrementShipmentUnitsCount("c1")
    \/ \E top \in Tops : GetLatestExpectedRates("c1", top)
    \/ Cancel
    \/ Cleanup

SpecRates == Init /\ [][NextRates]_vars

----------------------------------------------------------------------------
(* SpecAverage: the service over a domain.ShipmentRepository whose latest  *)
(* batch is any sequence of buckets, also buckets the repository of        *)
(* persistence never builds: without quotes, or of a blank origin          *)

\* the sequences of quotes of a returned bucket, the company being the
\* position
StubQuotes ==
    {<<>>}
    \cup {<<ShipmentQuote(1, a, 1)>> : a \in 1..2}
    \cup {<<ShipmentQuote(1, a, 1), ShipmentQuote(2, b, 1)>> : a, b \in 1..2}
    \cup {<<ShipmentQuote(1, a, 1), ShipmentQuote(2, b, 1), ShipmentQuote(3, c, 1)>> :
             a, b, c \in 1..2}

\* the origins of a returned bucket, one of them blank
StubOrigins == {OriginShanghai, OriginSingapore, <<" ", "\t">>}

StubBuckets == {[Origin |-> o, Quotes |-> q] : o \in StubOrigins, q \in StubQuotes}

\* the sequences of at most two buckets, of different origins
StubSnapshots ==
    {<<>>}
    \cup {<<b>> : b \in StubBuckets}
    \cup {x \in StubBuckets \X StubBuckets : x[1].Origin # x[2].Origin}

\* the heap that holds the buckets: one array of buckets at address 1 and
\* the quotes of bucket k at address k
StubInner(buckets) ==
    [k \in {j \in 1..Len(buckets) : buckets[j].Quotes # <<>>} |-> buckets[k].Quotes]

StubOuter(buckets) ==
    IF buckets = <<>> THEN <<>>
    ELSE <<[k \in 1..Len(buckets) |->
              [Origin |-> buckets[k].Origin,
               Quotes |-> IF buckets[k].Quotes = <<>> THEN NilSlice
                          ELSE [ptr |-> k, len |-> Len(buckets[k].Quotes),
                                cap |-> Len(buckets[k].Quotes)]]]>>

InitAverage ==
    /\ \E buckets \in StubSnapshots :
          /\ latestShipmentBatch =
                IF buckets = <<>> THEN NilSlice
                ELSE [ptr |-> 1, len |-> Len(buckets), cap |-> Len(buckets)]
          /\ outerMem = StubOuter(buckets)
          /\ innerMem = StubInner(buckets)
    /\ shipmentsByOrigin = NilSlice
    /\ shipmentCount = 0
    /\ thresholdCount = 1
    /\ ctxDone = FALSE
    /\ watcher = "waiting"
    /\ mu = "free"
    /\ call = [p \in Callers |-> Idle]
    /\ held = [p \in Callers |-> NilSlice]
    /\ rates = [p \in Callers |-> NoRates]

NextAverage ==
    \/ \E top \in Tops : GetLatestExpectedRates("c1", top)
    \/ Cancel
    \/ Cleanup

SpecAverage == InitAverage /\ [][NextAverage]_vars

----------------------------------------------------------------------------
(* SpecNew: the construction of the repository, then one caller whose     *)
(* shipments fail validation in every combination of fields                *)

\* the contexts passed to the constructor
Contexts == {"nil", "ctx"}

\* the thresholds passed to the constructor
Thresholds == -1..MaxThreshold

\* each field valid or not, and a newer quote and a second origin
NewUnits ==
    {ShipmentUnit(origin, company, price, date) :
        origin \in {OriginShanghai, <<" ", "\t">>}, company \in 0..1,
        price \in 0..1, date \in 0..1}
    \cup {ShipmentUnit(OriginShanghai, 1, 1, 2), ShipmentUnit(OriginSingapore, 1, 1, 1)}

NextNew ==
    \/ \E ctx \in Contexts, threshold \in Thresholds :
          NewShipmentOfferRepository("c1", ctx, threshold)
    \/ \E shipment \in NewUnits : AddOrUpdate("c1", shipment)
    \/ GetLatestSortedShipmentsByOrigin("c1")
    \/ Cancel
    \/ Cleanup

SpecNew == InitNew /\ [][NextNew]_vars

----------------------------------------------------------------------------
(* SpecGateway: the handler of POST over the service and the repository;  *)
(* one caller, every request from the decoded payload to the response      *)

\* the text of a number in two and in four digits
twoDigits(n) == <<Digits[(n \div 10) + 1], Digits[(n % 10) + 1]>>
fourDigits(n) == twoDigits(n \div 100) \o twoDigits(n % 100)

\* the date in the layout "2006-01-02"
dateString(year, month, day) ==
    fourDigits(year) \o <<"-">> \o twoDigits(month) \o <<"-">> \o twoDigits(day)

\* a payload every field of which the handler accepts
BaseOffer == requestedShipmentOffer(1, 1, OriginShanghai, dateString(1, 1, 2))

\* the payloads: the base and the payloads that differ from it in one
\* field, at and beyond the limits of the handler, and one with two fields
\* out of range
Offers ==
    {BaseOffer}
    \cup {[BaseOffer EXCEPT !.Company = company] :
             company \in {MinCompanyID - 1, MaxCompanyID, MaxCompanyID + 1}}
    \cup {[BaseOffer EXCEPT !.Price = price] :
             price \in {MinPrice - 1, MaxOfferPrice, MaxOfferPrice + 1}}
    \cup {[BaseOffer EXCEPT !.Origin = origin] :
             origin \in {OriginSingapore, <<"L", "A", "X">>, <<>>}}
    \cup {[BaseOffer EXCEPT !.Date = date] :
             date \in {dateString(1, 1, 1), dateString(1, 1, 3), dateString(1, 2, 29),
                       dateString(1, 13, 1),
                       <<"0", "1", "-", "0", "1", "-", "0", "0", "0", "1">>, <<>>}}
    \cup {requestedShipmentOffer(0, 0, OriginShanghai, dateString(1, 1, 2))}

NextGateway ==
    \/ \E shipmentOffer \in Offers : SubmitShipmentOffer("c1", shipmentOffer)
    \/ GetLatestSortedShipmentsByOrigin("c1")
    \/ Cancel
    \/ Cleanup

SpecGateway == Init /\ [][NextGateway]_vars

----------------------------------------------------------------------------
(* SpecLocked: two callers, AddOrUpdate statement by statement under r.mu *)

NextLocked ==
    \/ \E p \in Callers, shipment \in StepUnits : AddOrUpdateBegin(p, shipment)
    \/ \E p \in Callers : AddOrUpdateEnter(p)
    \/ \E p \in Callers : AddOrUpdateSearch(p)
    \/ \E p \in Callers : AddOrUpdateCount(p)
    \/ \E p \in Callers : AddOrUpdateBatch(p)
    \/ \E p \in Callers : IncrementLock(p)
    \/ \E p \in Callers : IncrementLocked(p)
    \/ \E p \in Callers : GetBegin(p)
    \/ \E p \in Callers : GetRLocked(p)
    \/ Cancel
    \/ CleanupLock
    \/ CleanupLocked

SpecLocked == Init /\ [][NextLocked]_vars

----------------------------------------------------------------------------
(* SpecWorkers: one caller, the search goroutines of AddOrUpdate step by  *)
(* step                                                                    *)

\* the shipments: three origins, a second company and a newer quote
WorkerUnits ==
    {ShipmentUnit(OriginShanghai, 1, 1, 1), ShipmentUnit(OriginShanghai, 1, 1, 2),
     ShipmentUnit(OriginShanghai, 2, 1, 1), ShipmentUnit(OriginSingapore, 1, 1, 1),
     ShipmentUnit(OriginShenzhen, 1, 1, 1)}

\* the indices of the buckets
Workers == 0..2

NextWorkers ==
    \/ \E shipment \in WorkerUnits : AddOrUpdateBegin("c1", shipment)
    \/ AddOrUpdateEnter("c1")
    \/ AddOrUpdateGo("c1")
    \/ \E i \in Workers : WorkerSelect("c1", i)
    \/ \E i \in Workers : WorkerCompare("c1", i)
    \/ \E i \in Workers : WorkerLock("c1", i)
    \/ \E i \in Workers : WorkerUpsert("c1", i)
    \/ AddOrUpdateWait("c1")
    \/ AddOrUpdateCount("c1")
    \/ AddOrUpdateBatch("c1")
    \/ Cancel
    \/ CleanupLock
    \/ CleanupLocked

SpecWorkers == Init /\ [][NextWorkers]_vars

----------------------------------------------------------------------------
(* SpecFair: SpecWorkers with a second caller that increments and reads,   *)
(* under fair scheduling: the goroutine that holds r.mu goes on, and a     *)
(* goroutine that waits for r.mu gets it if it is free again and again     *)
(* (sync.Mutex hands the lock to a waiter that starves)                    *)

\* the shipments: two origins
FairUnits ==
    {ShipmentUnit(OriginShanghai, 1, 1, 1), ShipmentUnit(OriginSingapore, 1, 1, 1)}

\* a call starts only where it leaves the count within MaxCount
RoomToCount == shipmentCount < MaxCount - 1

\* the steps of the goroutines of the call of p inside its locked section
SectionStep(p) ==
    \/ AddOrUpdateGo(p)
    \/ \E i \in Workers : WorkerSelect(p, i)
    \/ \E i \in Workers : WorkerCompare(p, i)
    \/ \E i \in Workers : WorkerLock(p, i)
    \/ \E i \in Workers : WorkerUpsert(p, i)
    \/ AddOrUpdateWait(p)
    \/ AddOrUpdateCount(p)
    \/ AddOrUpdateBatch(p)

NextFair ==
    \/ \E shipment \in FairUnits : RoomToCount /\ AddOrUpdateBegin("c1", shipment)
    \/ AddOrUpdateEnter("c1")
    \/ SectionStep("c1")
    \/ RoomToCount /\ IncrementLock("c2")
    \/ IncrementLocked("c2")
    \/ GetBegin("c2")
    \/ GetRLocked("c2")
    \/ Cancel
    \/ CleanupLock
    \/ CleanupLocked

\* the holder of r.mu takes its next step; the waiters for r.mu get it
Fairness ==
    /\ WF_vars(SectionStep("c1") \/ IncrementLocked("c2") \/ CleanupLocked)
    /\ SF_vars(AddOrUpdateEnter("c1"))
    /\ SF_vars(GetRLocked("c2"))
    /\ SF_vars(CleanupLock)

SpecFair == Init /\ [][NextFair]_vars /\ Fairness

----------------------------------------------------------------------------
(* What the repository shows *)

LiveStore == BucketsView(outerMem, innerMem, shipmentsByOrigin)
Snapshot == BucketsView(outerMem, innerMem, latestShipmentBatch)
HeldView(p) == BucketsView(outerMem, innerMem, held[p])

\* the indices of the buckets of the origin in a sequence of buckets
BucketsOf(store, origin) == {b \in 1..Len(store) : store[b].Origin = origin}

\* the quotes of the company in a sequence of quotes
QuotesOfCompany(quotes, company) ==
    {k \in 1..Len(quotes) : quotes[k].Company = company}

\* the quotes of the other companies, in their order
OtherQuotes(quotes, company) ==
    SelectSeq(quotes, LAMBDA q : q.Company # company)

PriceAscending(quotes) ==
    \A k \in 1..(Len(quotes) - 1) : quotes[k].Price <= quotes[k + 1].Price

\* an origin that is empty or all white space
Blank(origin) == \A k \in 1..Len(origin) : origin[k] \in {" ", "\t", "\n", "\r"}

Valid(shipment) ==
    /\ ~Blank(shipment.Origin)
    /\ shipment.Price > 0
    /\ shipment.Date # 0
    /\ shipment.Company > 0

\* a step in which caller c1 makes a call of AddOrUpdate; the
\* shipment is call'["c1"].arg and the result call'["c1"].res
AddOrUpdateCalled ==
    /\ call'["c1"].op = "AddOrUpdate"
    /\ UNCHANGED <<ctxDone, watcher>>

\* the quote stored for the shipment's origin and company satisfies P
StoredBefore(shipment, P(_)) ==
    \E b \in BucketsOf(LiveStore, shipment.Origin) :
        \E k \in QuotesOfCompany(LiveStore[b].Quotes, shipment.Company) :
            P(LiveStore[b].Quotes[k])

----------------------------------------------------------------------------
(* Claims *)

\* C1: in every reachable state no bucket of the live store holds two
\* quotes of the same company.
C1_UniqueCompany ==
    \A b \in 1..Len(LiveStore) :
        \A i, j \in 1..Len(LiveStore[b].Quotes) :
            i # j => LiveStore[b].Quotes[i].Company # LiveStore[b].Quotes[j].Company

\* C1 witness: an accepted AddOrUpdate for a company already stored next to
\* another company of the same origin.
C1_Witness ==
    \E p \in Callers :
        /\ call[p].op = "AddOrUpdate" /\ call[p].res = "nil"
        /\ \E b \in BucketsOf(LiveStore, call[p].arg.Origin) :
              /\ Len(LiveStore[b].Quotes) >= 2
              /\ LiveStore[b].Quotes[1].Company = call[p].arg.Company
              /\ LiveStore[b].Quotes[1].Date = 2

\* C3: an AddOrUpdate with a date after the stored quote's date replaces the
\* stored quote by the submitted one, whatever the prices; the bucket keeps
\* its length and the quotes of the other companies.
C3_NewerReplaces ==
    [][(/\ AddOrUpdateCalled
        /\ call'["c1"].res = "nil"
        /\ StoredBefore(call'["c1"].arg, LAMBDA q : call'["c1"].arg.Date > q.Date))
       => LET shipment == call'["c1"].arg IN
          \A b \in BucketsOf(LiveStore, shipment.Origin) :
             /\ Len(LiveStore') = Len(LiveStore)
             /\ LiveStore'[b].Origin = shipment.Origin
             /\ Len(LiveStore'[b].Quotes) = Len(LiveStore[b].Quotes)
             /\ \A k \in QuotesOfCompany(LiveStore'[b].Quotes, shipment.Company) :
                   LiveStore'[b].Quotes[k] = QuoteOf(shipment)
             /\ Cardinality(QuotesOfCompany(LiveStore'[b].Quotes, shipment.Company)) = 1
             /\ OtherQuotes(LiveStore'[b].Quotes, shipment.Company)
                   = OtherQuotes(LiveStore[b].Quotes, shipment.Company)
             /\ \A o \in 1..Len(LiveStore) : o # b => LiveStore'[o] = LiveStore[o]
    ]_vars

\* C3 witness: a newer quote at a higher price has replaced the quote of a
\* company that shares its bucket with another company.
C3_Witness ==
    /\ call["c1"].op = "AddOrUpdate" /\ call["c1"].res = "nil"
    /\ call["c1"].arg.Date = 2 /\ call["c1"].arg.Price = 2
    /\ \E b \in BucketsOf(LiveStore, call["c1"].arg.Origin) :
          /\ Len(LiveStore[b].Quotes) = 2
          /\ LiveStore[b].Quotes[2] = QuoteOf(call["c1"].arg)
          /\ LiveStore[b].Quotes[1].Price = 1
          /\ LiveStore[b].Quotes[1].Date = 1

\* C4: an AddOrUpdate with the stored quote's date and a lower price
\* replaces the stored quote: the stored price becomes the submitted one.
C4_SameDateCheaperReplaces ==
    [][(/\ AddOrUpdateCalled
        /\ call'["c1"].res = "nil"
        /\ StoredBefore(call'["c1"].arg,
              LAMBDA q : call'["c1"].arg.Date = q.Date /\ call'["c1"].arg.Price < q.Price))
       => LET shipment == call'["c1"].arg IN
          \A b \in BucketsOf(LiveStore', shipment.Origin) :
             \A k \in QuotesOfCompany(LiveStore'[b].Quotes, shipment.Company) :
                LiveStore'[b].Quotes[k].Price = shipment.Price
    ]_vars

\* C5: an AddOrUpdate of a valid shipment with a date not after and a price
\* not below the stored quote's returns nil and leaves every bucket of the
\* live store as it was.
C5_NonImprovingKeeps ==
    [][(/\ AddOrUpdateCalled
        /\ ~ctxDone
        /\ Valid(call'["c1"].arg)
        /\ StoredBefore(call'["c1"].arg,
              LAMBDA q : call'["c1"].arg.Date <= q.Date /\ call'["c1"].arg.Price >= q.Price))
       => /\ call'["c1"].res = "nil"
          /\ LiveStore' = LiveStore
    ]_vars

\* C5 witness: a non-improving shipment at a higher price was accepted and
\* the cheaper stored quote is still there.
C5_Witness ==
    /\ call["c1"].op = "AddOrUpdate" /\ call["c1"].res = "nil"
    /\ call["c1"].arg.Price = 2
    /\ \E b \in BucketsOf(LiveStore, call["c1"].arg.Origin) :
          \E k \in QuotesOfCompany(LiveStore[b].Quotes, call["c1"].arg.Company) :
             /\ LiveStore[b].Quotes[k].Price = 1
             /\ LiveStore[b].Quotes[k].Date = call["c1"].arg.Date

\* C6: an AddOrUpdate of a valid shipment with a date before the stored
\* quote's date returns nil and keeps the stored quote, also at a lower price.
C6_OlderNeverReplaces ==
    [][(/\ AddOrUpdateCalled
        /\ ~ctxDone
        /\ Valid(call'["c1"].arg)
        /\ StoredBefore(call'["c1"].arg, LAMBDA q : call'["c1"].arg.Date < q.Date))
       => LET shipment == call'["c1"].arg IN
          /\ call'["c1"].res = "nil"
          /\ \A b \in BucketsOf(LiveStore, shipment.Origin) :
                /\ b \in BucketsOf(LiveStore', shipment.Origin)
                /\ \A k \in QuotesOfCompany(LiveStore[b].Quotes, shipment.Company) :
                      /\ k \in QuotesOfCompany(LiveStore'[b].Quotes, shipment.Company)
                      /\ LiveStore'[b].Quotes[k] = LiveStore[b].Quotes[k]
    ]_vars

\* C6 witness: an older and cheaper shipment was accepted and the newer,
\* dearer stored quote is still there.
C6_Witness ==
    /\ call["c1"].op = "AddOrUpdate" /\ call["c1"].res = "nil"
    /\ call["c1"].arg.Price = 1 /\ call["c1"].arg.Date = 1
    /\ \E b \in BucketsOf(LiveStore, call["c1"].arg.Origin) :
          \E k \in QuotesOfCompany(LiveStore[b].Quotes, call["c1"].arg.Company) :
             /\ LiveStore[b].Quotes[k].Price = 2
             /\ LiveStore[b].Quotes[k].Date = 2

\* C2: an AddOrUpdate that does not refresh leaves what the snapshot shows
\* as it was, and no AddOrUpdate changes what a slice returned earlier by
\* GetLatestSortedShipmentsByOrigin shows.
C2_SnapshotStable ==
    [][(AddOrUpdateCalled /\ call'["c1"].res = "nil")
       => /\ (shipmentCount + 1) % thresholdCount # 0 => Snapshot' = Snapshot
          /\ HeldView("c1")' = HeldView("c1")
    ]_vars

\* C7: an AddOrUpdate whose increment makes the count a multiple of the
\* threshold leaves the snapshot equal to the live store, this shipment
\* included, every bucket ascending by price, and the count 0; any other
\* leaves the snapshot as it was and the count one higher.
C7_RefreshPolicy ==
    [][(AddOrUpdateCalled /\ call'["c1"].res = "nil")
       => IF (shipmentCount + 1) % thresholdCount = 0
          THEN /\ Snapshot' = LiveStore'
               /\ \A b \in 1..Len(Snapshot') : PriceAscending(Snapshot'[b].Quotes)
               /\ \E b \in BucketsOf(Snapshot', call'["c1"].arg.Origin) :
                     QuotesOfCompany(Snapshot'[b].Quotes, call'["c1"].arg.Company) # {}
               /\ shipmentCount' = 0
          ELSE /\ Snapshot' = Snapshot
               /\ shipmentCount' = shipmentCount + 1
    ]_vars

\* C8: in every reachable state every bucket of the snapshot is ascending
\* by price.
C8_SnapshotSorted ==
    \A b \in 1..Len(Snapshot) : PriceAscending(Snapshot[b].Quotes)

\* C8 witness: a snapshot bucket in which the second company, at the lower
\* price, stands before the first, whose quote is a replacement by a newer
\* one, with calls counted since the refresh.
C8_Witness ==
    /\ shipmentCount > 0
    /\ \E b \in 1..Len(Snapshot) :
          /\ Len(Snapshot[b].Quotes) = 2
          /\ Snapshot[b].Quotes[1] = ShipmentQuote(2, 1, 1)
          /\ Snapshot[b].Quotes[2] = ShipmentQuote(1, 2, 2)

\* the errors of the fields of the shipment that fail validation
ErrorsOf(shipment) ==
    {e \in {"ErrInvalidOriginPort", "ErrInvalidPrice", "ErrInvalidDate",
            "ErrInvalidCompany"} :
        \/ e = "ErrInvalidOriginPort" /\ Blank(shipment.Origin)
        \/ e = "ErrInvalidPrice" /\ shipment.Price <= 0
        \/ e = "ErrInvalidDate" /\ shipment.Date = 0
        \/ e = "ErrInvalidCompany" /\ shipment.Company <= 0}

\* C9: an AddOrUpdate of a shipment that fails validation returns the error
\* of a failing field and leaves the live store, the snapshot and the count
\* unchanged.
C9_InvalidRejected ==
    [][(AddOrUpdateCalled /\ ~Valid(call'["c1"].arg))
       => /\ call'["c1"].res \in ErrorsOf(call'["c1"].arg)
          /\ LiveStore' = LiveStore
          /\ Snapshot' = Snapshot
          /\ shipmentCount' = shipmentCount
    ]_vars

\* C9 witness: a shipment with company 0 was rejected by a repository that
\* holds quotes and has counted a call since its refresh.
C9_Witness ==
    /\ call["c1"].op = "AddOrUpdate"
    /\ call["c1"].res = "ErrInvalidCompany"
    /\ call["c1"].arg.Company = 0
    /\ Len(LiveStore) >= 1 /\ Len(Snapshot) >= 1
    /\ shipmentCount = 1

\* C10: once ctx.Done() is closed, a call of GetLatestSortedShipmentsByOrigin
\* that starts returns an empty slice and no error, and a call of
\* AddOrUpdate with a valid shipment that starts returns
\* ErrOperationCancelled.
C10_AfterCancel ==
    [][\A p \in Callers :
        (/\ ctxDone
         /\ call[p].at = "done"
         /\ call'[p] # call[p] \/ held'[p] # held[p])
        => /\ (call'[p].op = "AddOrUpdate" /\ Valid(call'[p].arg))
                 => /\ call'[p].at = "done"
                    /\ call'[p].res = "ErrOperationCancelled"
           /\ call'[p].op = "GetLatestSortedShipmentsByOrigin"
                 => /\ call'[p].at = "done"
                    /\ call'[p].res = "nil"
                    /\ HeldView(p)' = <<>>
    ]_vars

\* C10 witness: the context is cancelled and the clean-up has not run; one
\* caller's AddOrUpdate of a valid shipment has returned
\* ErrOperationCancelled and the other's read has returned an empty slice
\* although the snapshot holds quotes.
C10_Witness ==
    /\ ctxDone /\ watcher = "waiting"
    /\ Len(Snapshot) >= 1
    /\ call["c1"] = Returned("AddOrUpdate", call["c1"].arg, "ErrOperationCancelled")
    /\ Valid(call["c1"].arg)
    /\ call["c2"] = Returned("GetLatestSortedShipmentsByOrigin", NoUnit, "nil")
    /\ held["c2"] = NilSlice

\* C11: once cleanup has run, in every later state the live store and the
\* snapshot are empty and the count is 0, whatever calls are made afterwards
\* or were in progress when ctx.Done() was closed.
C11_InertAfterCleanup ==
    watcher = "exited"
        => /\ LiveStore = <<>>
           /\ Snapshot = <<>>
           /\ shipmentCount = 0

\* C12: a call of AddOrUpdate that is past its check of ctx.Done() and has
\* not taken r.mu when ctx.Done() is closed returns ErrOperationCancelled
\* and leaves the live store, the snapshot and the count unchanged.
C12_CancelledBeforeLock ==
    [][\A p \in Callers :
        (/\ ctxDone
         /\ call[p].op = "AddOrUpdate" /\ call[p].at = "lock"
         /\ call'[p] # call[p])
        => /\ call'[p] = Returned("AddOrUpdate", call[p].arg, "ErrOperationCancelled")
           /\ LiveStore' = LiveStore
           /\ Snapshot' = Snapshot
           /\ shipmentCount' = shipmentCount
    ]_vars

\* a step in which caller c1 makes a call of IncrementShipmentUnitsCount
IncrementCalled ==
    /\ call'["c1"].op = "IncrementShipmentUnitsCount"
    /\ UNCHANGED <<ctxDone, watcher>>

\* C13: a call of IncrementShipmentUnitsCount returns without an error,
\* makes the count one higher and leaves the live store and the snapshot
\* unchanged: no refresh and no reset, also at a multiple of the threshold.
C13_IncrementOnlyCounts ==
    [][IncrementCalled
       => /\ call'["c1"].res = "nil"
          /\ shipmentCount' = shipmentCount + 1
          /\ LiveStore' = LiveStore
          /\ Snapshot' = Snapshot
    ]_vars

\* C13 witness: IncrementShipmentUnitsCount has brought the count to the
\* threshold while the live store holds a quote the snapshot does not show.
C13_Witness ==
    /\ call["c1"].op = "IncrementShipmentUnitsCount"
    /\ thresholdCount = 2
    /\ shipmentCount = thresholdCount
    /\ Len(LiveStore) >= 1
    /\ Snapshot = <<>>

\* C14: after every completed call the count is below the threshold: a
\* refresh comes no later than the thresholdCount-th counted submission.
C14_RefreshEveryThreshold ==
    shipmentCount < thresholdCount

\* C15: with thresholdCount = 1 every accepted AddOrUpdate leaves the
\* snapshot showing exactly the buckets and quotes of the live store,
\* whatever calls of IncrementShipmentUnitsCount came before it.
C15_ThresholdOne ==
    [][(/\ thresholdCount = 1
        /\ AddOrUpdateCalled
        /\ call'["c1"].res = "nil")
       => /\ Snapshot' = LiveStore'
          /\ \E b \in BucketsOf(Snapshot', call'["c1"].arg.Origin) :
                QuotesOfCompany(Snapshot'[b].Quotes, call'["c1"].arg.Company) # {}
    ]_vars

\* C15 witness: with thresholdCount = 1, company 1 dear, company 2 cheap and
\* then company 1 newer and cheap were accepted: the snapshot bucket shows
\* the replacement before company 2.
C15_Witness ==
    /\ thresholdCount = 1
    /\ call["c1"].op = "AddOrUpdate" /\ call["c1"].res = "nil"
    /\ call["c1"].arg = ShipmentUnit(OriginShanghai, 1, 1, 2)
    /\ \E b \in 1..Len(Snapshot) :
          Snapshot[b].Quotes = <<ShipmentQuote(1, 1, 2), ShipmentQuote(2, 1, 1)>>

\* a step of caller p in a call of GetLatestSortedShipmentsByOrigin
GetStep(p) ==
    /\ call'[p].op = "GetLatestSortedShipmentsByOrigin"
    /\ call'[p] # call[p] \/ held'[p] # held[p]

\* C20: no step of a call of GetLatestSortedShipmentsByOrigin changes the
\* live store, the snapshot or the count, and the call returns the snapshot
\* as it is, without a refresh: empty while no refresh has filled it, also
\* when the live store holds quotes.
C20_PureRead ==
    [][\A p \in Callers :
        GetStep(p)
        => /\ LiveStore' = LiveStore
           /\ Snapshot' = Snapshot
           /\ shipmentCount' = shipmentCount
           /\ call[p].at = "lock" => HeldView(p)' = Snapshot
           /\ (call[p].at = "done" /\ ctxDone) => HeldView(p)' = <<>>
    ]_vars

\* C20 witness: a read returned an empty slice from a repository whose live
\* store holds a quote and whose snapshot has not been refreshed.
C20_Witness ==
    /\ call["c1"] = Returned("GetLatestSortedShipmentsByOrigin", NoUnit, "nil")
    /\ ~ctxDone
    /\ Len(LiveStore) >= 1
    /\ shipmentCount = 1
    /\ Snapshot = <<>>
    /\ HeldView("c1") = <<>>

\* a step in which caller c1 makes a call of GetLatestExpectedRates; top is
\* rates'["c1"].top, the map rates'["c1"].rates, the error call'["c1"].res
RatesCalled ==
    /\ call'["c1"].op = "GetLatestExpectedRates"
    /\ UNCHANGED <<ctxDone, watcher>>

RECURSIVE SumOfPrices(_)
SumOfPrices(quotes) ==
    IF quotes = <<>> THEN 0 ELSE Head(quotes).Price + SumOfPrices(Tail(quotes))

Minimum(a, b) == IF a <= b THEN a ELSE b

\* the buckets of a sequence of buckets that have a quote and an origin
\* that is not blank
Rated(buckets) ==
    {b \in 1..Len(buckets) :
        ~Blank(buckets[b].Origin) /\ Len(buckets[b].Quotes) >= 1}

\* C16: GetLatestExpectedRates with top > 0 has, for every bucket it was
\* given that has a quote and an origin that is not blank, the sum of the
\* prices of the first min(top, len) quotes divided by their number, the
\* remainder dropped, and no entry for any other bucket.
C16_AverageOfFirst ==
    [][(RatesCalled /\ rates'["c1"].top > 0)
       => LET buckets == HeldView("c1")'
              top == rates'["c1"].top
              m == rates'["c1"].rates
          IN /\ DOMAIN m = {buckets[b].Origin : b \in Rated(buckets)}
             /\ \A b \in Rated(buckets) :
                   LET n == Minimum(top, Len(buckets[b].Quotes)) IN
                   m[buckets[b].Origin]
                       = SumOfPrices(SubSeq(buckets[b].Quotes, 1, n)) \div n
    ]_vars

\* C16 witness: top = 2 over a bucket of three quotes at the prices 2, 1, 2
\* gave (2 + 1) / 2 = 1, and a bucket of a blank origin gave no entry.
C16_Witness ==
    /\ call["c1"] = Returned("GetLatestExpectedRates", NoUnit, "nil")
    /\ rates["c1"].top = 2
    /\ Len(HeldView("c1")) = 2
    /\ HeldView("c1")[1].Origin = OriginShanghai
    /\ HeldView("c1")[1].Quotes
          = <<ShipmentQuote(1, 2, 1), ShipmentQuote(2, 1, 1), ShipmentQuote(3, 2, 1)>>
    /\ Blank(HeldView("c1")[2].Origin) /\ Len(HeldView("c1")[2].Quotes) = 2
    /\ DOMAIN rates["c1"].rates = {OriginShanghai}
    /\ rates["c1"].rates[OriginShanghai] = 1

\* the sum of the prices of the quotes at the positions S
RECURSIVE SumAt(_, _)
SumAt(quotes, S) ==
    IF S = {} THEN 0
    ELSE LET i == CHOOSE i \in S : TRUE
         IN quotes[i].Price + SumAt(quotes, S \ {i})

\* the sum of the n lowest prices of the quotes
LowestSum(quotes, n) ==
    LET S == CHOOSE S \in SUBSET (1..Len(quotes)) :
                /\ Cardinality(S) = n
                /\ \A i \in S, j \in (1..Len(quotes)) \ S :
                      quotes[i].Price <= quotes[j].Price
    IN SumAt(quotes, S)

\* C17: right after a refresh GetLatestExpectedRates with top > 0 has, for
\* every origin of the live store, the mean of the min(top, n) lowest prices
\* of its n quotes, the remainder dropped, in whatever order they were
\* submitted.
C17_MeanOfCheapest ==
    [][(/\ RatesCalled
        /\ rates'["c1"].top > 0
        /\ ~ctxDone
        /\ shipmentCount = 0
        /\ LiveStore # <<>>)
       => LET top == rates'["c1"].top
              m == rates'["c1"].rates
          IN /\ call'["c1"].res = "nil"
             /\ DOMAIN m = {LiveStore[b].Origin : b \in 1..Len(LiveStore)}
             /\ \A b \in 1..Len(LiveStore) :
                   LET n == Minimum(top, Len(LiveStore[b].Quotes)) IN
                   m[LiveStore[b].Origin]
                       = LowestSum(LiveStore[b].Quotes, n) \div n
    ]_vars

\* C17 witness: right after a refresh, top = 1 over three quotes of one
\* origin at the prices 2, 1, 2 gave the lowest price 1, next
\* to the rate of a second origin.
C17_Witness ==
    /\ call["c1"] = Returned("GetLatestExpectedRates", NoUnit, "nil")
    /\ rates["c1"].top = 1
    /\ shipmentCount = 0 /\ ~ctxDone
    /\ DOMAIN rates["c1"].rates = {OriginShanghai, OriginSingapore}
    /\ rates["c1"].rates[OriginShanghai] = 1
    /\ \E b \in BucketsOf(LiveStore, OriginShanghai) :
          /\ Len(LiveStore[b].Quotes) = 3
          /\ b = 1

\* C18: GetLatestExpectedRates with top <= 0 returns ErrInvalidTopValue and
\* no map, without a call of the repository: the repository and the slice
\* last read from it are unchanged.
C18_InvalidTop ==
    [][(RatesCalled /\ rates'["c1"].top <= 0)
       => /\ call'["c1"].res = "ErrInvalidTopValue"
          /\ rates'["c1"].rates = EmptyMap
          /\ UNCHANGED <<shipmentsByOrigin, latestShipmentBatch, shipmentCount,
                         outerMem, innerMem, held>>
    ]_vars

\* C18 witness: top = -1 was rejected while the snapshot holds a bucket that
\* no read has returned yet.
C18_Witness ==
    /\ call["c1"] = Returned("GetLatestExpectedRates", NoUnit, "ErrInvalidTopValue")
    /\ rates["c1"].top = -1
    /\ ~ctxDone
    /\ Len(Snapshot) >= 1
    /\ held["c1"] = NilSlice

\* C19: GetLatestExpectedRates with top > 0 returns ErrNoExpectedRates when
\* the repository returns no bucket, as it does before the first refresh
\* and after the cancellation, ErrNoValidRates when it returns buckets and
\* skips every one, and otherwise a map with an entry.
C19_NoRates ==
    [][(RatesCalled /\ rates'["c1"].top > 0)
       => LET buckets == HeldView("c1")'
              res == call'["c1"].res
          IN /\ (ctxDone \/ Snapshot = <<>>) => buckets = <<>>
             /\ buckets = <<>> => res = "ErrNoExpectedRates"
             /\ (buckets # <<>> /\ Rated(buckets) = {}) => res = "ErrNoValidRates"
             /\ (buckets # <<>> /\ Rated(buckets) # {})
                   => res = "nil" /\ DOMAIN rates'["c1"].rates # {}
             /\ res # "nil" => rates'["c1"].rates = EmptyMap
    ]_vars

\* C19 witness: a bucket of a blank origin and a bucket without quotes were
\* both skipped and the call returned ErrNoValidRates.
C19_Witness ==
    /\ call["c1"] = Returned("GetLatestExpectedRates", NoUnit, "ErrNoValidRates")
    /\ rates["c1"].top = 1
    /\ Len(HeldView("c1")) = 2
    /\ Blank(HeldView("c1")[1].Origin) /\ Len(HeldView("c1")[1].Quotes) = 1
    /\ HeldView("c1")[2].Origin = OriginShanghai
    /\ HeldView("c1")[2].Quotes = <<>>


\* a call of NewShipmentOfferRepository by the caller c1
NewCalled ==
    /\ call["c1"].at = "new"
    /\ call'["c1"].op = "NewShipmentOfferRepository"

\* C21: NewShipmentOfferRepository fails and leaves no repository when the
\* context is nil or the threshold is not positive; otherwise it returns a
\* repository with no bucket in the live store or the snapshot, the count 0
\* and the threshold passed.
C21_Create ==
    [][NewCalled
       => LET arg == call'["c1"].arg IN
          IF arg.ctx = "nil" \/ arg.thresholdCount <= 0
          THEN /\ call'["c1"].at = "failed"
               /\ call'["c1"].res \in {"ErrNilContext", "ErrThresholdCounter"}
               /\ watcher' = "none"
               /\ thresholdCount' = 0
          ELSE /\ call'["c1"].at = "done"
               /\ call'["c1"].res = "nil"
               /\ LiveStore' = <<>>
               /\ Snapshot' = <<>>
               /\ shipmentCount' = 0
               /\ thresholdCount' = arg.thresholdCount
               /\ watcher' = "waiting"
    ]_vars

\* C21 witness: the constructor was called with a nil context and a positive
\* threshold and returned ErrNilContext.
C21_Witness ==
    /\ call["c1"].op = "NewShipmentOfferRepository"
    /\ call["c1"].at = "failed"
    /\ call["c1"].arg = [ctx |-> "nil", thresholdCount |-> 1]
    /\ call["c1"].res = "ErrNilContext"

\* the errors of validation in the order of the checks
ErrorOrder ==
    <<"ErrInvalidOriginPort", "ErrInvalidPrice", "ErrInvalidDate", "ErrInvalidCompany">>

\* the error of the first check, in that order, that the shipment fails
FirstError(shipment) ==
    ErrorOrder[CHOOSE k \in 1..4 :
                  /\ ErrorOrder[k] \in ErrorsOf(shipment)
                  /\ \A j \in 1..(k - 1) : ErrorOrder[j] \notin ErrorsOf(shipment)]

\* C24: an AddOrUpdate of a shipment with several invalid fields returns the
\* error of the first failing check in the order origin, price, date,
\* company.
C24_FirstError ==
    [][(AddOrUpdateCalled /\ Cardinality(ErrorsOf(call'["c1"].arg)) >= 2)
       => call'["c1"].res = FirstError(call'["c1"].arg)
    ]_vars

\* C24 witness: a shipment with the zero date and the company 0, its origin
\* and price valid, was rejected with ErrInvalidDate.
C24_Witness ==
    /\ call["c1"] = Returned("AddOrUpdate", ShipmentUnit(OriginShanghai, 0, 1, 0),
                             "ErrInvalidDate")
    /\ thresholdCount > 0

\* C25: with the context cancelled, an AddOrUpdate of a shipment that fails
\* validation returns an error of validation, and ErrOperationCancelled is
\* returned for the shipments that pass validation, and for all of them.
C25_ValidationFirst ==
    [][(AddOrUpdateCalled /\ ctxDone)
       => LET shipment == call'["c1"].arg
              res == call'["c1"].res
          IN /\ ~Valid(shipment) => res \in ErrorsOf(shipment)
             /\ Valid(shipment) <=> res = "ErrOperationCancelled"
    ]_vars

\* C25 witness: after the cancellation and the clean-up a shipment with the
\* price 0 was rejected with ErrInvalidPrice.
C25_Witness ==
    /\ ctxDone
    /\ watcher = "exited"
    /\ call["c1"] = Returned("AddOrUpdate", ShipmentUnit(OriginShanghai, 1, 0, 1),
                             "ErrInvalidPrice")


\* C29: an AddOrUpdate of a valid shipment whose origin no bucket of the
\* live store has appends one bucket after the others, with that origin and
\* the submitted quote alone, and leaves every other bucket as it was.
C29_NewBucketLast ==
    [][(/\ AddOrUpdateCalled
        /\ call'["c1"].res = "nil"
        /\ BucketsOf(LiveStore, call'["c1"].arg.Origin) = {})
       => LiveStore' = Append(LiveStore,
                              [Origin |-> call'["c1"].arg.Origin,
                               Quotes |-> <<QuoteOf(call'["c1"].arg)>>])
    ]_vars

\* C29 witness: the bucket of the second origin was appended after a bucket
\* that holds the quotes of three companies.
C29_Witness ==
    /\ call["c1"] = Returned("AddOrUpdate", ShipmentUnit(OriginSingapore, 1, 1, 1), "nil")
    /\ Len(LiveStore) = 2
    /\ LiveStore[1].Origin = OriginShanghai
    /\ Len(LiveStore[1].Quotes) = 3
    /\ LiveStore[2] = [Origin |-> OriginSingapore, Quotes |-> <<ShipmentQuote(1, 1, 1)>>]

\* an AddOrUpdate of a valid shipment of a company new to the bucket b of
\* its origin
NewCompanyIn(b) ==
    /\ AddOrUpdateCalled
    /\ call'["c1"].res = "nil"
    /\ b \in BucketsOf(LiveStore, call'["c1"].arg.Origin)
    /\ QuotesOfCompany(LiveStore[b].Quotes, call'["c1"].arg.Company) = {}

\* C30 as claimed: the quote of a company new to the bucket is appended at
\* the end of the bucket, whatever its price.
C30_AppendedLast ==
    [][\A b \in 1..Len(LiveStore) :
          NewCompanyIn(b)
          => LiveStore' = [LiveStore EXCEPT ![b].Quotes =
                              Append(@, QuoteOf(call'["c1"].arg))]
    ]_vars

\* C30 amended: the quote of a company new to the bucket is inserted at a
\* position that keeps the bucket ascending by price; the bucket grows by
\* one, the quotes it held keep their values and their order, and the other
\* buckets are as they were.
C30_InsertedInOrder ==
    [][\A b \in 1..Len(LiveStore) :
          NewCompanyIn(b)
          => LET shipment == call'["c1"].arg
                 old == LiveStore[b].Quotes
                 new == LiveStore'[b].Quotes
             IN /\ Len(LiveStore') = Len(LiveStore)
                /\ \A c \in 1..Len(LiveStore) : c # b => LiveStore'[c] = LiveStore[c]
                /\ LiveStore'[b].Origin = LiveStore[b].Origin
                /\ Len(new) = Len(old) + 1
                /\ OtherQuotes(new, shipment.Company) = old
                /\ \E k \in 1..Len(new) : new[k] = QuoteOf(shipment)
                /\ PriceAscending(new)
    ]_vars

\* C30 witness: the quote of the second company, at the price 1, stands
\* before the quotes at the price 2 of the first and third company, which
\* were stored before it.
C30_Witness ==
    /\ call["c1"] = Returned("AddOrUpdate", ShipmentUnit(OriginShanghai, 2, 1, 1), "nil")
    /\ Len(LiveStore) = 1
    /\ LiveStore[1].Quotes =
          <<ShipmentQuote(2, 1, 1), ShipmentQuote(1, 2, 1), ShipmentQuote(3, 2, 1)>>


\* a request to SubmitShipmentOffer by the caller c1
OfferCalled ==
    /\ call'["c1"].op = "SubmitShipmentOffer"
    /\ UNCHANGED <<ctxDone, watcher>>

\* the texts of the days of the years 1 to 4, one of them a leap year
DateTexts ==
    LET lengths == <<31, 28, 31, 30, 31, 30, 31, 31, 30, 31, 30, 31>>
    IN {dateString(t[1], t[2], t[3]) :
           t \in {u \in (1..4) \X (1..12) \X (1..31) :
                     u[3] <= lengths[u[2]] \/ u = <<4, 2, 29>>}}

\* the payload is in the ranges the handler states
InRange(shipmentOffer) ==
    /\ shipmentOffer.Company \in 1..999
    /\ shipmentOffer.Price \in 1..99999
    /\ shipmentOffer.Origin \in
          {<<"C", "N", "S", "G", "H">>, <<"S", "G", "S", "I", "N">>,
           <<"C", "N", "S", "N", "Z">>, <<"C", "N", "N", "B", "O">>,
           <<"C", "N", "G", "G", "Z">>}
    /\ shipmentOffer.Date \in DateTexts

\* C22: a request whose payload is out of the handler's ranges (company,
\* price, origin or a date that does not parse) raises the count by one,
\* leaves the live store and the snapshot as they were, also when the count
\* reaches the threshold, and is answered with status 200 and no body.
C22_RejectedIsCounted ==
    [][(OfferCalled /\ ~InRange(call'["c1"].arg))
       => /\ shipmentCount' = shipmentCount + 1
          /\ LiveStore' = LiveStore
          /\ Snapshot' = Snapshot
          /\ call'["c1"].res = "StatusOK"
          /\ call'["c1"].body = ""
    ]_vars

\* C22 witness: a payload with the company 1000 was answered with 200 and
\* no body; the count stands at the threshold 2 and the snapshot is still
\* empty while the live store holds a quote.
C22_Witness ==
    /\ call["c1"] = Responded([BaseOffer EXCEPT !.Company = 1000], "StatusOK", "", "nil")
    /\ thresholdCount = 2
    /\ shipmentCount = 2
    /\ LiveStore # <<>>
    /\ Snapshot = <<>>

\* C23: before the cancellation a request whose payload is in the handler's
\* ranges is answered with status 200 and its quote is stored.
C23_AcceptedIsStored ==
    [][(OfferCalled /\ InRange(call'["c1"].arg) /\ ~ctxDone)
       => /\ call'["c1"].res = "StatusOK"
          /\ \E b \in BucketsOf(LiveStore', call'["c1"].arg.Origin) :
                QuotesOfCompany(LiveStore'[b].Quotes, call'["c1"].arg.Company) # {}
    ]_vars


\* the caller p is between r.mu.Lock() and r.mu.Unlock() of AddOrUpdate
InSection(p) ==
    /\ call[p].op = "AddOrUpdate"
    /\ call[p].at \in {"search", "wait", "count", "batch"}

\* what a repository value shows: the live store, the snapshot, the count
Shown(R) ==
    [live |-> BucketsView(R.om, R.im, R.sbo),
     snap |-> BucketsView(R.om, R.im, R.lsb),
     count |-> R.count]

\* C26: while a call of AddOrUpdate is between the mutation of the live
\* store, the increment and manageBatch, no step of another caller or of
\* the clean-up changes the live store, the snapshot or the count; and
\* manageBatch sees the count the call's own increment produced, one more
\* than the count the call found, and refreshes exactly when that count is
\* a multiple of the threshold.
C26_CountAndCheckAtomic ==
    [][\A p \in Callers :
          /\ (InSection(p) /\ call'[p] = call[p])
                => /\ LiveStore' = LiveStore
                   /\ Snapshot' = Snapshot
                   /\ shipmentCount' = shipmentCount
          /\ (InCall(p, "batch") /\ call'[p].at = "done")
                => /\ shipmentCount = call[p].entry.count + 1
                   /\ IF (call[p].entry.count + 1) % thresholdCount = 0
                      THEN shipmentCount' = 0 /\ Snapshot' = LiveStore
                      ELSE shipmentCount' = shipmentCount /\ Snapshot' = Snapshot
    ]_vars

\* C26 witness: the first caller stands before manageBatch with the count 2
\* its increment produced, the threshold being 2, while the second caller
\* waits for r.mu with a call of AddOrUpdate and the context is cancelled.
C26_Witness ==
    /\ InCall("c1", "batch")
    /\ call["c1"].entry.count = 1
    /\ shipmentCount = 2
    /\ thresholdCount = 2
    /\ InCall("c2", "lock")
    /\ ctxDone

\* what the repository R shows after one call of AddOrUpdate run alone
AloneShows(R, shipment) ==
    IF matching(R, shipment) = {}
    THEN {Shown(countAndBatch(appendOrigin(R, shipment)))}
    ELSE {Shown(countAndBatch(foundIn(R, i, shipment))) : i \in matching(R, shipment)}

\* C27: a call of AddOrUpdate that runs while other calls run leaves the
\* live store, the snapshot and the count as the same call run alone leaves
\* them, from the repository as it was when the call took r.mu, so that the
\* calls take effect one after another in the order of r.mu; and a call of
\* GetLatestSortedShipmentsByOrigin returns the snapshot of a state in
\* which no call of AddOrUpdate and no clean-up is under r.mu.
C27_Serialized ==
    [][\A p \in Callers :
          /\ (InCall(p, "batch") /\ call'[p].at = "done")
                => [live |-> LiveStore', snap |-> Snapshot', count |-> shipmentCount']
                      \in AloneShows(call[p].entry, call[p].arg)
          /\ (/\ call[p].op = "GetLatestSortedShipmentsByOrigin"
              /\ call[p].at = "lock"
              /\ call'[p].at = "done")
                => /\ \A q \in Callers : ~InSection(q)
                   /\ \A q \in Callers : call[q].at # "locked"
                   /\ watcher # "locked"
                   /\ HeldView(p)' = Snapshot
    ]_vars

\* C27 witness: the second caller's AddOrUpdate of a second company has
\* returned, after a refresh at the threshold 2, while the first caller,
\* which began a call of AddOrUpdate before, still waits for r.mu.
C27_Witness ==
    /\ call["c2"] = Returned("AddOrUpdate", ShipmentUnit(OriginShanghai, 2, 1, 1), "nil")
    /\ InCall("c1", "lock")
    /\ thresholdCount = 2
    /\ shipmentCount = 0
    /\ Len(Snapshot) = 1
    /\ Len(Snapshot[1].Quotes) = 2

\* what the live store of R shows after a scan of the buckets in their
\* order: the quote goes to the first bucket of its origin, or to a new
\* bucket after the others when no bucket has the origin
ScanShows(R, shipment) ==
    LET found == matching(R, shipment) IN
    IF found = {}
    THEN Shown(appendOrigin(R, shipment)).live
    ELSE Shown(foundIn(R, CHOOSE i \in found : \A j \in found : i <= j, shipment)).live

\* C28: when wg.Wait() returns and the append of a new origin is decided,
\* done was closed at most once, by the one goroutine that upserted, and
\* the live store is what a scan of the buckets in their order gives: as
\* many buckets as before when a bucket had the origin, one more when none
\* had.
C28_FanOutAsScan ==
    [][(InCall("c1", "wait") /\ call'["c1"].at = "count")
       => LET entry == call["c1"].entry
              shipment == call["c1"].arg
              before == Shown(entry).live
          IN /\ call["c1"].closed <= 1
             /\ call["c1"].updated <=> call["c1"].closed = 1
             /\ call["c1"].updated <=> BucketsOf(before, shipment.Origin) # {}
             /\ LiveStore' = ScanShows(entry, shipment)
             /\ Len(LiveStore') =
                   IF BucketsOf(before, shipment.Origin) # {}
                   THEN Len(before) ELSE Len(before) + 1
    ]_vars

\* C28 witness: with three buckets, the goroutine of the second bucket has
\* upserted and closed done, the goroutine of the third bucket left at the
\* select and the goroutine of the first bucket has yet to compare.
C28_Witness ==
    /\ InCall("c1", "wait")
    /\ DOMAIN call["c1"].workers = 0..2
    /\ call["c1"].workers[0] = "compare"
    /\ call["c1"].workers[1] = "exit"
    /\ call["c1"].workers[2] = "select"
    /\ call["c1"].updated
    /\ call["c1"].closed = 1


\* C31: an AddOrUpdate of a valid shipment before the cancellation returns
\* nil and counts the submission once before manageBatch looks at the
\* count, whether the quote went to a new bucket, to a new company of a
\* bucket or to a company that has a quote, and also when it left the live
\* store as it was: the count rises by one, or falls to 0 with a refresh
\* when the raised count is a multiple of the threshold.
C31_EveryAcceptedCounts ==
    [][(AddOrUpdateCalled /\ Valid(call'["c1"].arg) /\ ~ctxDone)
       => /\ call'["c1"].res = "nil"
          /\ IF (shipmentCount + 1) % thresholdCount = 0
             THEN shipmentCount' = 0 /\ Snapshot' = LiveStore'
             ELSE shipmentCount' = shipmentCount + 1
    ]_vars

\* C31 witness: a quote of the first company older than the stored one was
\* accepted without effect on the live store, and it was the submission
\* that refreshed the snapshot at the threshold 2.
C31_Witness ==
    /\ call["c1"] = Returned("AddOrUpdate", ShipmentUnit(OriginShanghai, 1, 2, 1), "nil")
    /\ ~ctxDone
    /\ thresholdCount = 2
    /\ shipmentCount = 0
    /\ LiveStore = <<[Origin |-> OriginShanghai, Quotes |-> <<ShipmentQuote(1, 1, 2)>>]>>
    /\ Snapshot = LiveStore


\* C34: in every reachable state every bucket of the live store is in
\* ascending order of price, between refreshes too.
C34_LiveStoreSorted ==
    \A b \in 1..Len(LiveStore) : PriceAscending(LiveStore[b].Quotes)

\* C34 witness: since the last refresh the quote of the first company was
\* replaced by a cheaper one, which moved from between the other two to the
\* front of the bucket.
C34_Witness ==
    /\ shipmentCount > 0
    /\ Len(LiveStore) >= 1
    /\ LiveStore[1].Quotes =
          <<ShipmentQuote(1, 1, 2), ShipmentQuote(2, 1, 1), ShipmentQuote(3, 2, 1)>>
    /\ Len(Snapshot) >= 1
    /\ Len(Snapshot[1].Quotes) # 3


\* the dates of the quotes the store holds for the origin and the company
DatesOf(store, origin, company) ==
    UNION {{store[b].Quotes[k].Date :
               k \in QuotesOfCompany(store[b].Quotes, company)} :
           b \in BucketsOf(store, origin)}

\* the origins and the companies of the shipments of the two callers
StepPairs == {<<shipment.Origin, shipment.Company>> : shipment \in StepUnits}

\* C35: for every origin and company the date of the quote in the live
\* store never decreases from one state to the next while the quote stays,
\* and after an accepted AddOrUpdate it is the later of the date stored
\* before and the date submitted, so that it is the latest date accepted
\* for the pair so far.
C35_DateNeverDecreases ==
    [][/\ \/ UNCHANGED <<shipmentsByOrigin, outerMem, innerMem>>
          \/ \A pair \in StepPairs :
                \A old \in DatesOf(LiveStore, pair[1], pair[2]) :
                   \A new \in DatesOf(LiveStore', pair[1], pair[2]) : new >= old
       /\ \A p \in Callers :
             (/\ call[p].op = "AddOrUpdate"
              /\ call[p].at = "locked"
              /\ call'[p].at = "done")
                => LET shipment == call[p].arg
                       old == DatesOf(LiveStore, shipment.Origin, shipment.Company)
                       new == DatesOf(LiveStore', shipment.Origin, shipment.Company)
                   IN /\ Cardinality(new) = 1
                      /\ \A d \in new :
                            /\ d >= shipment.Date
                            /\ d = shipment.Date \/ d \in old
    ]_vars

\* C35 witness: the first caller's newer quote and the second caller's
\* older quote of the first company were both accepted, the second of the
\* two calls refreshed the snapshot, and the live store holds the newer
\* date.
C35_Witness ==
    /\ call["c1"] = Returned("AddOrUpdate", ShipmentUnit(OriginShanghai, 1, 1, 2), "nil")
    /\ call["c2"] = Returned("AddOrUpdate", ShipmentUnit(OriginShanghai, 1, 1, 1), "nil")
    /\ thresholdCount = 2
    /\ shipmentCount = 0
    /\ DatesOf(LiveStore, OriginShanghai, 1) = {2}
    /\ Snapshot = LiveStore
    /\ ~ctxDone


\* the origins of the buckets of the store
OriginsOf(store) == {store[b].Origin : b \in 1..Len(store)}

\* the companies with a quote in a bucket of the origin
CompaniesOf(store, origin) ==
    UNION {{store[b].Quotes[k].Company : k \in 1..Len(store[b].Quotes)} :
           b \in BucketsOf(store, origin)}

\* the step is the body of cleanup
ClearStep == watcher = "locked" /\ watcher' = "exited"

\* C36: no step but the clean-up removes an origin from the live store or
\* a company from the bucket of an origin; a replacement of a company's
\* quote leaves the bucket with the same companies and the same number of
\* quotes; and no bucket is without a quote.
C36_NothingRemoved ==
    [][\/ UNCHANGED <<shipmentsByOrigin, outerMem, innerMem>>
       \/ LET old == LiveStore
              new == LiveStore'
          IN /\ ~ClearStep
                => /\ OriginsOf(old) \subseteq OriginsOf(new)
                   /\ \A origin \in OriginsOf(old) :
                         CompaniesOf(old, origin) \subseteq CompaniesOf(new, origin)
             /\ \A b \in 1..Len(new) : new[b].Quotes # <<>>
             /\ (InCall("c1", "wait") /\ call'["c1"].at = "wait")
                   => \A b \in BucketsOf(old, call["c1"].arg.Origin) :
                         call["c1"].arg.Company \in CompaniesOf(old, old[b].Origin)
                            => /\ Len(new[b].Quotes) = Len(old[b].Quotes)
                               /\ CompaniesOf(new, old[b].Origin)
                                     = CompaniesOf(old, old[b].Origin)
    ]_vars

\* C36 witness: the quote of the first company of the first bucket was
\* replaced by a newer one; the bucket still holds both companies, and the
\* other two buckets are in place.
C36_Witness ==
    /\ call["c1"] = Returned("AddOrUpdate", ShipmentUnit(OriginShanghai, 1, 1, 2), "nil")
    /\ Len(LiveStore) = 3
    /\ LiveStore[1].Origin = OriginShanghai
    /\ Len(LiveStore[1].Quotes) = 2
    /\ CompaniesOf(LiveStore, OriginShanghai) = {1, 2}
    /\ DatesOf(LiveStore, OriginShanghai, 1) = {2}


\* C33: in every reachable state no two buckets of the live store have the
\* same origin.
C33_UniqueOrigins ==
    \A b \in 1..Len(LiveStore), c \in 1..Len(LiveStore) :
        LiveStore[b].Origin = LiveStore[c].Origin => b = c

\* C33 witness: three buckets of three origins, and the last call, of a
\* second company of the first origin, found its bucket among them while
\* the goroutines of the other two buckets were still to compare.
C33_Witness ==
    /\ InCall("c1", "wait")
    /\ call["c1"].arg = ShipmentUnit(OriginShanghai, 2, 1, 1)
    /\ call["c1"].updated
    /\ call["c1"].workers = [i \in 0..2 |-> IF i = 0 THEN "exit" ELSE "compare"]
    /\ Len(LiveStore) = 3
    /\ Len(LiveStore[1].Quotes) = 2


\* C40: without calls of IncrementShipmentUnitsCount the count is in
\* 0..thresholdCount-1 whenever r.mu is free; an AddOrUpdate raises it by
\* one and its manageBatch refreshes the snapshot and resets the count
\* exactly when the raised count equals the threshold, so that the refresh
\* comes with every thresholdCount-th accepted call counted from 0; the
\* count changes in no other step but the clean-up, which resets it.
C40_CountBelowThreshold ==
    [][/\ mu' = "free" => shipmentCount' \in 0..(thresholdCount - 1)
       /\ (InCall("c1", "count") /\ call'["c1"].at = "batch")
             => /\ shipmentCount' = shipmentCount + 1
                /\ shipmentCount' \in 1..thresholdCount
       /\ (InCall("c1", "batch") /\ call'["c1"].at = "done")
             => IF shipmentCount = thresholdCount
                THEN shipmentCount' = 0 /\ Snapshot' = LiveStore
                ELSE /\ shipmentCount' = shipmentCount
                     /\ latestShipmentBatch' = latestShipmentBatch
       /\ shipmentCount' # shipmentCount
             => \/ InCall("c1", "count")
                \/ InCall("c1", "batch")
                \/ ClearStep
       /\ latestShipmentBatch' # latestShipmentBatch
             => \/ InCall("c1", "batch") /\ shipmentCount = thresholdCount
                \/ ClearStep
    ]_vars

\* C40 witness: at the threshold 2 three calls were accepted; the second
\* refreshed the snapshot, which has two buckets, the third did not, and
\* the count stands at 1 with r.mu free.
C40_Witness ==
    /\ thresholdCount = 2
    /\ shipmentCount = 1
    /\ mu = "free"
    /\ call["c1"].at = "done"
    /\ call["c1"].res = "nil"
    /\ Len(LiveStore) = 3
    /\ Len(Snapshot) = 2


\* the quotes of the store and the origins of its buckets pass validation
AllValid(store) ==
    \A b \in 1..Len(store) :
        /\ ~Blank(store[b].Origin)
        /\ \A k \in 1..Len(store[b].Quotes) :
              /\ store[b].Quotes[k].Price > 0
              /\ store[b].Quotes[k].Company > 0
              /\ store[b].Quotes[k].Date # 0

\* C37: in every reachable state every quote of the live store and of the
\* snapshot has a price above 0, a company above 0 and a date that is not
\* the zero time, in a bucket whose origin is not blank.
C37_StoredAreValid ==
    AllValid(LiveStore) /\ AllValid(Snapshot)

\* C37 witness: a shipment with the company 0 has just been rejected with
\* ErrInvalidCompany while the live store and the snapshot hold two buckets.
C37_Witness ==
    /\ call["c1"] = Returned("AddOrUpdate", ShipmentUnit(OriginShanghai, 0, 1, 1),
                             "ErrInvalidCompany")
    /\ Len(LiveStore) = 2
    /\ Len(Snapshot) = 2
    /\ ~ctxDone

\* C38: an AddOrUpdate that returns ErrOperationCancelled leaves the live
\* store, the snapshot and the count as they were, and the slices and
\* their arrays too.
C38_CancelledHasNoEffect ==
    [][(AddOrUpdateCalled /\ call'["c1"].res = "ErrOperationCancelled")
       => /\ LiveStore' = LiveStore
          /\ Snapshot' = Snapshot
          /\ shipmentCount' = shipmentCount
          /\ UNCHANGED <<shipmentsByOrigin, latestShipmentBatch, outerMem, innerMem>>
    ]_vars

\* C38 witness: the context is cancelled, the clean-up has not run yet, the
\* repository holds a bucket and has counted one call, and a valid shipment
\* was rejected with ErrOperationCancelled.
C38_Witness ==
    /\ ctxDone
    /\ watcher = "waiting"
    /\ call["c1"] = Returned("AddOrUpdate", ShipmentUnit(OriginSingapore, 1, 1, 1),
                             "ErrOperationCancelled")
    /\ Len(LiveStore) = 1
    /\ LiveStore[1].Origin = OriginShanghai
    /\ shipmentCount = 1
    /\ thresholdCount = 2


\* C32: once the context is cancelled the watcher goroutine eventually runs
\* cleanup; it runs it once, and only after the cancellation; it runs it
\* holding r.mu while no call is inside its locked section, and in the
\* state after it the live store and the snapshot are empty and the count
\* is 0.
C32_WatcherClears ==
    /\ ctxDone ~> (watcher = "exited")
    /\ [][ClearStep =>
            /\ mu = "watcher"
            /\ \A p \in Callers : ~InSection(p) /\ call[p].at # "locked"
            /\ LiveStore' = <<>>
            /\ Snapshot' = <<>>
            /\ shipmentCount' = 0
            /\ mu' = "free"]_vars
    /\ [][watcher' # watcher =>
            \/ watcher = "waiting" /\ watcher' = "locked"
            \/ watcher = "locked" /\ watcher' = "exited"]_vars
    /\ [](watcher # "waiting" => ctxDone)

\* C32 witness: the clean-up has run; the slice the second caller got
\* before it still shows the bucket the snapshot held, and the live store,
\* the snapshot and the count are cleared.
C32_Witness ==
    /\ watcher = "exited"
    /\ Len(HeldView("c2")) = 1
    /\ LiveStore = <<>>
    /\ Snapshot = <<>>
    /\ shipmentCount = 0
    /\ mu = "free"

\* C39: every AddOrUpdate that waits for r.mu returns, every call of the
\* second caller returns, a cancelled context's clean-up gets r.mu, and
\* r.mu is free again after every locked section; wg.Wait() returns only
\* when every goroutine has finished and muOrigin is free, and no caller
\* that has returned holds r.mu.
C39_EveryCallReturns ==
    /\ InCall("c1", "lock") ~> (call["c1"].at = "done")
    /\ (call["c2"].at # "done") ~> (call["c2"].at = "done")
    /\ (ctxDone /\ watcher = "waiting") ~> (mu = "watcher")
    /\ (mu # "free") ~> (mu = "free")
    /\ [][(InCall("c1", "wait") /\ call'["c1"].at = "count") =>
            /\ \A i \in DOMAIN call["c1"].workers : call["c1"].workers[i] = "exit"
            /\ call["c1"].muOrigin = "free"]_vars
    /\ [](\A p \in Callers : call[p].at = "done" => mu # p)
    /\ [](watcher = "exited" => mu # "watcher")

\* C39 witness: a goroutine of an AddOrUpdate holds muOrigin inside the
\* section locked by r.mu while the second caller's read waits for r.mu and
\* the watcher of the cancelled context waits for it too.
C39_Witness ==
    /\ InCall("c1", "wait")
    /\ \E i \in DOMAIN call["c1"].workers : call["c1"].workers[i] = "critical"
    /\ call["c1"].muOrigin = "held"
    /\ call["c2"].op = "GetLatestSortedShipmentsByOrigin"
    /\ call["c2"].at = "lock"
    /\ ctxDone
    /\ watcher = "waiting"

====
